---- MODULE Spec2Model ----
(***************************************************************************)
(* Model of astrolabe's web view layer:                                    *)
(*   - ImageInfo            (src/src/web/mod.rs)                           *)
(*   - the Ultralight engine adapter (src/src/web/engine/ultralight.rs)    *)
(*   - the WebView orchestrator      (src/src/web/webview/view.rs)         *)
(*   - the host AppModel's tab messages (src/src/app.rs)                   *)
(*                                                                         *)
(* The program is sequential: every handler runs to completion.  A handler *)
(* is modelled as a function from a machine record (the fields of WebView  *)
(* and of its engine) to a machine record; a Rust panic is recorded in the *)
(* field `panic` and stops the handler where it happened, leaving the      *)
(* fields as the statements before it left them.                           *)
(*                                                                         *)
(* u32 values are kept as signed representatives of their residue modulo   *)
(* 2^32: a small negative number -k stands for 2^32 - k.  Addition and     *)
(* subtraction of small constants are then plain integer operations, and   *)
(* an overflow is a crossing of zero (AddOverflows, SubOverflows).         *)
(***************************************************************************)
EXTENDS Integers, Sequences, FiniteSets, Bags, TLC

\* ------------------------------------------------------------------ bounds

\* Spec: CreateView and init are disabled once this many views exist.
MaxViews == 3
\* SpecAll (every Action, navigation and input included): the same, with fewer views.
MaxViewsAll == 2
\* Number of handler calls explored from the initial state, in Spec and in SpecAll.
MaxSteps == 4
MaxStepsAll == 4
\* SpecApp: handler calls explored after AppModel::init, and the tabs NewTab may open.
MaxStepsApp == 4
MaxTabs == 3
\* SpecInput and SpecKeys: engine calls explored after WebView::init.
MaxStepsInput == 3
MaxStepsKeys == 2
\* SpecTabs: host messages explored after AppModel::init.
MaxStepsTabs == 5
\* SpecNewTabs: enough handler calls for MaxTabs tabs and all their follow-ups.
MaxStepsNewTabs == 10
\* The ViewId domain (usize) is cut down to 1..NumIds.
NumIds == 3
\* SpecImage: the pixels of a raw buffer, and the ImageInfo::new calls made on it.
MaxPixels == 2
MaxPasses == 2

\* --------------------------------------------------------------- constants

\* The transient perturbation of the resize quirk.
ResizeQuirk == 10
\* WebView::default viewport.
DefaultWidth == 1920
DefaultHeight == 1080

ViewIds == 1..NumIds
\* Option<usize>::None, for current_view_index.
None == -1
NoPanic == "none"

\* Panic messages of the code.  The first four are the explicit `expect`
\* messages; the arithmetic ones come from overflow checks (debug builds).
PanicNoCurrent == "The current view index is not set."
PanicStaleCurrent == "Could find view index for view, may be closed."
PanicNoIndex == "Failed to find index"
PanicViewNotFound == "The requested View id was not found"
PanicAddOverflow == "attempt to add with overflow"
PanicSubOverflow == "attempt to subtract with overflow"
PanicDebugAssert == "assertion failed: surface.row_bytes() / size.width == 4"
\* assert_eq!(pixels.len() % 4, 0)
PanicAssertEq == "assertion left == right failed: pixels.len() % 4"

\* ------------------------------------------------------------ input domains

Size(w, h) == [width |-> w, height |-> h]
DefaultSize == Size(DefaultWidth, DefaultHeight)
\* Sizes a host publishes through Action::Resize: an ordinary one and one whose
\* height is below the resize quirk (a very small window).
ResizeSizes == {Size(800, 600), Size(640, 5)}

\* Page contents.  Html("start") is the start page; Url(u) a remote page.
Html(s) == [kind |-> "Html", content |-> s]
Url(u) == [kind |-> "Url", content |-> u]
StartPage == Html("start")
GotoUrls == {"u1", "u2"}
CreatePages == {StartPage, Url("u1")}
NoLoad == [kind |-> "None", content |-> ""]

Point(x, y) == [x |-> x, y |-> y]

\* ---------------------------------------------------------- u32 arithmetic

AddOverflows(a, b) == a < 0 /\ a + b >= 0
SubOverflows(a, b) == a >= 0 /\ a - b < 0

VARIABLES
    overflow_checks,     \* build profile: TRUE = debug (overflow panics), FALSE = release (wraps)
    callbacks,           \* which of on_create_view/on_close_view/on_url_change/on_title_change are set
    views,               \* Ultralight.views: Seq of View
    view_size,           \* WebView.view_size
    current_view_index,  \* WebView.current_view_index: None or a 0-based index
    view_ids,            \* WebView.view_ids
    url,                 \* WebView.url (last observed)
    title,               \* WebView.title (last observed)
    panic,               \* NoPanic, or the message of the panic that ended the program
    last_action,         \* the Action of the last WebView::update (history)
    calls,               \* Engine trait calls made by the last handler, in order (history)
    fired,               \* native events fired (and surfaces locked) by the last handler, in order (history)
    tasks,               \* notifications returned by the last WebView::update
    num_views,           \* AppModel.num_views
    nav,                 \* AppModel.nav: the tabs in order, each by its data::<u32> (a view index)
    webview_url,         \* AppModel.webview_url
    pending,             \* messages of returned Tasks not yet delivered to AppModel::update (a bag)
    exited,              \* cosmic::iced::exit() was returned
    last_message,        \* the Message of the last AppModel::update (history)
    image,               \* the ImageInfo last built by ImageInfo::new, byte by byte
    raw,                 \* the buffer given to the first ImageInfo::new (history)
    formats,             \* the PixelFormat of every ImageInfo::new made so far (history)
    budget               \* handler calls left to explore

wvVars == <<views, view_size, current_view_index, view_ids, url, title, panic,
            last_action, calls, fired, tasks>>
hostVars == <<num_views, nav, webview_url, pending, exited, last_message>>
imgVars == <<image, raw, formats>>
vars == <<overflow_checks, callbacks, wvVars, hostVars, imgVars, budget>>

\* ------------------------------------------------------------------ ImageInfo

\* A pixel buffer is kept by its shape and channel order, not byte by byte:
\* `w` by `h` pixels of 4 bytes each, in channel order `order` ("White" is the
\* all-255 buffer, which every channel order reads alike).
Pixels(w, h, order) == [w |-> w, h |-> h, order |-> order]

\* chunk.swap(0, 2) on every 4-byte chunk.
SwapOrder(order) == IF order = "Bgra" THEN "Rgba" ELSE IF order = "Rgba" THEN "Bgra" ELSE order

\* An ImageInfo::new that stores width and height the wrong way round.
ImageInfoNewTransposed(pixels, format, width, height) ==
    [pixels |-> IF format = "Bgra"
                THEN Pixels(pixels.w, pixels.h, SwapOrder(pixels.order))
                ELSE pixels,
     width |-> height,
     height |-> width]

\* ImageInfo::new: the buffer is stored as given for Rgba and with bytes 0 and 2
\* of every pixel swapped for Bgra; width and height are stored as given.
ImageInfoNew(pixels, format, width, height) ==
    [pixels |-> IF format = "Bgra"
                THEN Pixels(pixels.w, pixels.h, SwapOrder(pixels.order))
                ELSE pixels,
     width |-> width,
     height |-> height]

\* The same constructor on a buffer kept byte by byte (a sequence of u8).

\* A channel exchange that takes the wrong pair: chunk.swap(0, 1).
SwapFirstTwo(bytes) ==
    [k \in 1..Len(bytes) |->
        IF (k - 1) % 4 = 0 THEN bytes[k + 1]
        ELSE IF (k - 1) % 4 = 1 THEN bytes[k - 1]
        ELSE bytes[k]]

\* A channel rotation: the first three bytes of every pixel move round by one.
RotateChannels(bytes) ==
    [k \in 1..Len(bytes) |->
        IF (k - 1) % 4 = 0 THEN bytes[k + 2]
        ELSE IF (k - 1) % 4 = 3 THEN bytes[k]
        ELSE bytes[k - 1]]

\* pixels.chunks_exact_mut(4).for_each(|chunk| chunk.swap(0, 2)): in every whole
\* chunk of 4 bytes the first and the third change places; the bytes after the
\* last whole chunk are left alone.
SwapChannels(bytes) ==
    LET whole == 4 * (Len(bytes) \div 4)
    IN [k \in 1..Len(bytes) |->
           IF k > whole THEN bytes[k]
           ELSE IF (k - 1) % 4 = 0 THEN bytes[k + 2]
           ELSE IF (k - 1) % 4 = 2 THEN bytes[k - 2]
           ELSE bytes[k]]

\* ImageInfo::new on bytes.  assert_eq!(pixels.len() % 4, 0) comes first: when
\* it fails there is a panic and no ImageInfo.
ImageInfoNewBytes(bytes, format, width, height) ==
    IF Len(bytes) % 4 # 0 THEN [panic |-> PanicAssertEq]
    ELSE [pixels |-> IF format = "Bgra" THEN SwapChannels(bytes) ELSE bytes,
          width |-> width,
          height |-> height]

\* ImageInfo::blank: vec![255; width * height * 4].
ImageInfoBlank(width, height) ==
    [pixels |-> Pixels(width, height, "White"), width |-> width, height |-> height]

\* pixels.len() == n, for a natural n.  A side that stands for 2^32 - k makes the
\* length at least 2^32 - k times the other side (or 0 when the other side is 0).
PixelsLenIs(pixels, n) ==
    IF pixels.w = 0 \/ pixels.h = 0 THEN n = 0
    ELSE IF pixels.w < 0 \/ pixels.h < 0 THEN FALSE
    ELSE pixels.w * pixels.h * 4 = n

\* ------------------------------------------------------- the native library

\* surface().lock_pixels() of a native view of size nw x nh: Ultralight's
\* bitmap surface holds its pixels in the order blue, green, red, alpha.
SurfacePixels(v) == Pixels(v.nw, v.nh, "Bgra")

\* surface.row_bytes()
RowBytes(v) == 4 * v.nw

\* view.load_url / view.load_html: the view starts loading `page`.
NativeLoad(v, page) == [v EXCEPT !.loading = page]

\* renderer.render(): every view that needs paint is painted.
NativeRender(vs) == [i \in DOMAIN vs |-> [vs[i] EXCEPT !.needs_paint = FALSE]]

\* renderer.update(): a load in flight may commit (the view then reports the new
\* url and title and needs paint), fail (nothing changes) or stay in flight.
\* `outcome[i]` is what happens to view i in this tick.
NativeUpdate(vs, outcome) ==
    [i \in DOMAIN vs |->
        IF vs[i].loading = NoLoad \/ outcome[i] = "pending" THEN vs[i]
        ELSE IF outcome[i] = "done"
        THEN [vs[i] EXCEPT !.page = vs[i].loading, !.loading = NoLoad, !.needs_paint = TRUE]
        ELSE [vs[i] EXCEPT !.loading = NoLoad]]

\* view.url().unwrap_or_default() / view.title().unwrap_or_default()
\* A view reports the url and title of the page that last committed.  Two urls
\* share a title, so a url change does not always come with a title change; the
\* start page is titled "New Tab".
NativeUrl(v) ==
    IF v.page.kind = "Url" THEN v.page.content
    ELSE IF v.page.kind = "Html" THEN "about:blank" ELSE ""
NativeTitle(v) ==
    IF v.page.kind = "Url" THEN "Site"
    ELSE IF v.page.kind = "Html" THEN "New Tab" ELSE ""

\* ------------------------------------------------------------- machine record

Panic(m, msg) == [m EXCEPT !.panic = msg]
Ok(m) == m.panic = NoPanic
Call(m, c) == [m EXCEPT !.calls = Append(@, c)]
Fire(m, e) == [m EXCEPT !.fired = Append(@, e)]
\* The call F made on the machine m, whose m.ret holds what the call before it
\* returned.
Then(m, F(_)) == F(m)

\* --------------------------------------------------------------- Ultralight

\* Ultralight::get_view / get_view_mut, the lookup every accessor starts with:
\* self.views.iter().find(|view| view.id == id), the position of the first
\* view with this id, 0 when there is none.
FindView(vs, id) ==
    IF \E i \in DOMAIN vs : vs[i].id = id
    THEN CHOOSE i \in DOMAIN vs : vs[i].id = id /\ \A j \in 1..(i - 1) : vs[j].id # id
    ELSE 0

\* f32 values are kept in halves (the integer h stands for h / 2), so that a
\* fractional input exists; `as i32` truncates toward zero.
AsI32(h) == IF h >= 0 THEN h \div 2 ELSE -((-h) \div 2)

\* A pointer re-injection that reads the position stored in the first view.
MouseMovedFirst(vs, i) ==
    [view |-> i, ty |-> "MouseMoved", x |-> AsI32(vs[1].cursor_pos.x),
     y |-> AsI32(vs[1].cursor_pos.y), button |-> "None"]

\* MouseEvent::new(MouseMoved, cursor_pos.x as i32, cursor_pos.y as i32, None),
\* for the view at position i.
MouseMoved(vs, i) ==
    [view |-> i, ty |-> "MouseMoved", x |-> AsI32(vs[i].cursor_pos.x),
     y |-> AsI32(vs[i].cursor_pos.y), button |-> "None"]

\* View::update_cursor_pos
UpdateCursorPos(m, i) == Fire(m, MouseMoved(m.views, i))

\* view.view.surface().unwrap().lock_pixels() of the view at position i, kept in
\* the log of native events to tell what came before the capture.
LockPixels(i) == [view |-> i, ty |-> "lock_pixels"]

\* A capture test that finds every view in need of a capture.
NeedsCaptureAlways(v) == TRUE

\* view.view.needs_paint() || view.was_loading && !view.view.is_loading()
NeedsCapture(v) == v.needs_paint \/ (v.was_loading /\ v.loading = NoLoad)

\* What the loop of Engine::render fires and locks for the first n views: for
\* each view in turn update_cursor_pos(), then lock_pixels() if the view is to
\* be captured.
RECURSIVE RenderEvents(_, _)
RenderEvents(vs, n) ==
    IF n = 0 THEN <<>>
    ELSE RenderEvents(vs, n - 1) \o <<MouseMoved(vs, n)>>
         \o (IF NeedsCapture(vs[n]) THEN <<LockPixels(n)>> ELSE <<>>)

\* Engine::render: the capture pass over every view.  `lock[i]` says whether
\* lock_pixels of the view at position i returns Some.  The pass does not call
\* renderer.render(): the surfaces and the needs-paint flags stay as they are.
EngineRender(m, size, lock) ==
    IF ~Ok(m) THEN m
    ELSE [Call(m, [op |-> "render", size |-> size]) EXCEPT
            !.fired = @ \o RenderEvents(m.views, Len(m.views)),
            !.views = [i \in DOMAIN m.views |->
                IF NeedsCapture(m.views[i]) /\ lock[i]
                THEN [m.views[i] EXCEPT
                        !.last_frame = ImageInfoNew(SurfacePixels(m.views[i]), "Bgra",
                                                    size.width, size.height),
                        !.was_loading = FALSE]
                ELSE m.views[i]]]

\* Engine::request_render.  `lock` says whether lock_pixels returns Some; the
\* call log keeps it with the call.
RequestRender(m, id, size, lock) ==
    IF ~Ok(m) THEN m
    ELSE LET m1 == Call(m, [op |-> "request_render", id |-> id, size |-> size, locked |-> lock])
             i == FindView(m.views, id)
         IN IF i = 0 THEN Panic(m1, PanicViewNotFound)
            ELSE LET m2 == Fire(UpdateCursorPos(m1, i), LockPixels(i))
                     painted == NativeRender([m2.views EXCEPT ![i].needs_paint = TRUE])
                 IN IF lock
                    THEN [m2 EXCEPT !.views =
                            [painted EXCEPT
                               ![i].last_frame = ImageInfoNew(SurfacePixels(painted[i]), "Rgba",
                                                              size.width, size.height),
                               ![i].was_loading = FALSE]]
                    ELSE [m2 EXCEPT !.views = painted]

\* A resize that reaches the first view only.
EngineResizeFirstOnly(m, size) ==
    IF ~Ok(m) THEN m
    ELSE [Call(m, [op |-> "resize", size |-> size]) EXCEPT !.views =
            [i \in DOMAIN m.views |->
                IF i = 1
                THEN [m.views[i] EXCEPT !.nw = size.width, !.nh = size.height,
                                        !.needs_paint = TRUE]
                ELSE m.views[i]]]

\* Engine::resize
EngineResize(m, size) ==
    IF ~Ok(m) THEN m
    ELSE [Call(m, [op |-> "resize", size |-> size]) EXCEPT !.views =
            [i \in DOMAIN m.views |->
                [m.views[i] EXCEPT !.nw = size.width, !.nh = size.height,
                                   !.needs_paint = TRUE]]]

\* Engine::new_view.  `id` is what rand::thread_rng().gen() returns; the new
\* view is pushed at the end of m.views and its id is left in m.ret.
NewView(m, size, page, id) ==
    IF ~Ok(m) THEN m
    ELSE LET m1 == Call(m, [op |-> "new_view", size |-> size, page |-> page])
         IN IF m.dbg /\ AddOverflows(size.width, ResizeQuirk) THEN Panic(m1, PanicAddOverflow)
            ELSE IF m.dbg /\ SubOverflows(size.height, ResizeQuirk) THEN Panic(m1, PanicSubOverflow)
            ELSE LET v0 == [id |-> id,
                            nw |-> size.width + ResizeQuirk,
                            nh |-> size.height - ResizeQuirk,
                            needs_paint |-> FALSE,
                            loading |-> NoLoad,
                            page |-> NoLoad,
                            cursor |-> "Idle",
                            last_frame |-> ImageInfoBlank(size.width, size.height),
                            was_loading |-> TRUE,
                            cursor_pos |-> Point(0, 0)]
                     v1 == IF page = NoLoad THEN v0
                           ELSE [NativeLoad(v0, page) EXCEPT !.needs_paint = TRUE]
                 IN IF m.dbg /\ size.width = 0 THEN Panic(m1, "attempt to divide by zero")
                    ELSE IF m.dbg /\ (RowBytes(v0) \div size.width) # 4
                    THEN Panic(m1, PanicDebugAssert)
                    ELSE [m1 EXCEPT !.views = Append(@, v1), !.ret = id]

\* Engine::remove_view
RemoveView(m, id) ==
    IF ~Ok(m) THEN m
    ELSE [Call(m, [op |-> "remove_view", id |-> id]) EXCEPT !.views =
            SelectSeq(m.views, LAMBDA v : v.id # id)]

\* Engine::goto
Goto(m, id, page) ==
    IF ~Ok(m) THEN m
    ELSE LET m1 == Call(m, [op |-> "goto", id |-> id, page |-> page])
             i == FindView(m.views, id)
         IN IF i = 0 THEN Panic(m1, PanicViewNotFound)
            ELSE [m1 EXCEPT !.views[i] =
                    [NativeLoad([@ EXCEPT !.cursor = "Working"], page) EXCEPT !.was_loading = TRUE]]

\* Engine::update.
EngineUpdate(m, outcome) ==
    IF ~Ok(m) THEN m
    ELSE [Call(m, [op |-> "update"]) EXCEPT !.views = NativeUpdate(m.views, outcome)]

\* Engine::get_url: the url is left in m.ret.
GetUrl(m, id) ==
    IF ~Ok(m) THEN m
    ELSE LET i == FindView(m.views, id)
         IN IF i = 0 THEN Panic(m, PanicViewNotFound)
            ELSE [m EXCEPT !.ret = NativeUrl(m.views[i])]

\* Engine::get_title: the title is left in m.ret.
GetTitle(m, id) ==
    IF ~Ok(m) THEN m
    ELSE LET i == FindView(m.views, id)
         IN IF i = 0 THEN Panic(m, PanicViewNotFound)
            ELSE [m EXCEPT !.ret = NativeTitle(m.views[i])]

\* Engine::refresh / go_back / go_forward: the lookup, then the native call.
\* reload() loads the committed page again.  What the native history holds is
\* the library's business: `hist` is the page the view starts loading because
\* of go_back / go_forward (NoLoad: nothing to go to).
Navigate(m, op, id, hist) ==
    IF ~Ok(m) THEN m
    ELSE LET m1 == Call(m, [op |-> op, id |-> id])
             i == FindView(m.views, id)
         IN IF i = 0 THEN Panic(m1, PanicViewNotFound)
            ELSE IF op = "refresh"
            THEN (IF m.views[i].page = NoLoad THEN m1
                  ELSE [m1 EXCEPT !.views[i] = NativeLoad(@, m.views[i].page)])
            ELSE IF hist = NoLoad THEN m1
            ELSE [m1 EXCEPT !.views[i] = NativeLoad(@, hist)]

\* ------------------------------------------------------------------ WebView

\* WebView::get_current_view_id: the id is left in m.ret.
GetCurrentViewId(m) ==
    IF ~Ok(m) THEN m
    ELSE IF m.cur = None THEN Panic(m, PanicNoCurrent)
    ELSE IF m.cur >= Len(m.view_ids) THEN Panic(m, PanicStaleCurrent)
    ELSE [m EXCEPT !.ret = m.view_ids[m.cur + 1]]

\* WebView::index_as_view_id: the id is left in m.ret.
IndexAsViewId(m, index) ==
    IF ~Ok(m) THEN m
    ELSE IF index >= Len(m.view_ids) THEN Panic(m, PanicNoIndex)
    ELSE [m EXCEPT !.ret = m.view_ids[index + 1]]

PushTask(m, t) == [m EXCEPT !.tasks = Append(@, t)]

\* A level-triggered detection: the url read is reported whether it changed or not.
CompareUrlAlways(m) ==
    IF ~Ok(m) THEN m
    ELSE PushTask([m EXCEPT !.url = m.ret], [msg |-> "UrlChanged", arg |-> m.ret])

\* if self.url != url { self.url = url.clone(); tasks.push(on_url_change(url)) },
\* the url read being in m.ret.
CompareUrl(m) ==
    IF ~Ok(m) \/ m.url = m.ret THEN m
    ELSE PushTask([m EXCEPT !.url = m.ret], [msg |-> "UrlChanged", arg |-> m.ret])

\* The url half of the change detection at the head of WebView::update.
DetectUrl(m) ==
    IF ~Ok(m) \/ ~m.cb.url THEN m
    ELSE CompareUrl(Then(GetCurrentViewId(m), LAMBDA x : GetUrl(x, x.ret)))

\* if self.title != title { self.title = title.clone(); tasks.push(on_title_change(title)) }
CompareTitle(m) ==
    IF ~Ok(m) \/ m.title = m.ret THEN m
    ELSE PushTask([m EXCEPT !.title = m.ret], [msg |-> "TitleChanged", arg |-> m.ret])

\* The title half of the change detection.
DetectTitle(m) ==
    IF ~Ok(m) \/ ~m.cb.title THEN m
    ELSE CompareTitle(Then(GetCurrentViewId(m), LAMBDA x : GetTitle(x, x.ret)))

\* WebView::update, lines 128-143.
DetectChanges(m) == IF m.cur # None THEN DetectTitle(DetectUrl(m)) ELSE m

\* self.view_size.width += 10;
GrowWidth(m) ==
    IF ~Ok(m) THEN m
    ELSE IF m.dbg /\ AddOverflows(m.view_size.width, ResizeQuirk) THEN Panic(m, PanicAddOverflow)
    ELSE [m EXCEPT !.view_size.width = @ + ResizeQuirk]

\* self.view_size.height -= 10;
ShrinkHeight(m) ==
    IF ~Ok(m) THEN m
    ELSE IF m.dbg /\ SubOverflows(m.view_size.height, ResizeQuirk) THEN Panic(m, PanicSubOverflow)
    ELSE [m EXCEPT !.view_size.height = @ - ResizeQuirk]

\* self.view_size.width -= 10;
ShrinkWidth(m) ==
    IF ~Ok(m) THEN m
    ELSE IF m.dbg /\ SubOverflows(m.view_size.width, ResizeQuirk) THEN Panic(m, PanicSubOverflow)
    ELSE [m EXCEPT !.view_size.width = @ - ResizeQuirk]

\* self.view_size.height += 10;
GrowHeight(m) ==
    IF ~Ok(m) THEN m
    ELSE IF m.dbg /\ AddOverflows(m.view_size.height, ResizeQuirk) THEN Panic(m, PanicAddOverflow)
    ELSE [m EXCEPT !.view_size.height = @ + ResizeQuirk]


\* self.engine.resize(self.view_size)
ResizeToStored(m) == EngineResize(m, m.view_size)

\* self.engine.request_render(<the id in m.ret>, self.view_size)
RenderRet(m, lock) == RequestRender(m, m.ret, m.view_size, lock)

\* The double resize and forced render shared by ChangeView and CloseView:
\* grow, resize, shrink back, resize, request_render(index_as_view_id(index)).
ResizeAndRender(m, index, lock) ==
    RenderRet(IndexAsViewId(ResizeToStored(GrowHeight(ShrinkWidth(
        ResizeToStored(ShrinkHeight(GrowWidth(m)))))), index), lock)

\* A switch that leaves the current index as it was.
SetCurrentKept(m, index) == m

\* self.current_view_index = Some(index)
SetCurrent(m, index) == IF Ok(m) THEN [m EXCEPT !.cur = index] ELSE m

\* Action::ChangeView(index)
DoChangeView(m, index, lock) == SetCurrent(ResizeAndRender(m, index, lock), index)

\* let cur_idx = if cur_idx == 0 { 0 } else { cur_idx - 1 };
ShiftedIndex(cur_idx) == IF cur_idx = 0 THEN 0 ELSE cur_idx - 1

\* if index as usize <= cur_idx
ClosedAtOrBelow(index, cur_idx) == index <= cur_idx

\* Vec::remove(index)
RemoveAt(seq, index) == SubSeq(seq, 1, index) \o SubSeq(seq, index + 2, Len(seq))

\* self.view_ids.remove(index); self.engine.remove_view(id), the id in m.ret.
RemoveEntry(m, index) ==
    IF ~Ok(m) THEN m
    ELSE RemoveView([m EXCEPT !.view_ids = RemoveAt(@, index)], m.ret)

\* Lines 165-182: the current view follows a close at or below it.
FollowClose(m, index, lock) ==
    IF Ok(m) /\ m.cur # None /\ ClosedAtOrBelow(index, ShiftedIndex(m.cur))
    THEN SetCurrent(ResizeAndRender(m, ShiftedIndex(m.cur), lock), ShiftedIndex(m.cur))
    ELSE m

NotifyClose(m) ==
    IF Ok(m) /\ m.cb.close THEN PushTask(m, [msg |-> "on_close_view", arg |-> ""]) ELSE m

\* Action::CloseView(index)
DoCloseView(m, index, lock) ==
    NotifyClose(FollowClose(RemoveEntry(IndexAsViewId(m, index), index), index, lock))

\* self.view_ids.push(id), the id in m.ret.
PushRet(m) == IF Ok(m) THEN [m EXCEPT !.view_ids = Append(@, m.ret)] ELSE m

NotifyCreate(m) ==
    IF Ok(m) /\ m.cb.create THEN PushTask(m, [msg |-> "on_create_view", arg |-> ""]) ELSE m

\* Action::CreateView(page_type)
DoCreateView(m, page, id) == NotifyCreate(PushRet(NewView(m, m.view_size, page, id)))

\* Action::GoBack / GoForward / Refresh
DoNavigate(m, op, hist) ==
    Then(GetCurrentViewId(m), LAMBDA x : Navigate(x, op, x.ret, hist))

\* A GoToUrl that navigates the first view of the sequence, not the current one.
DoGoToUrlFirstView(m, u) == Then(IndexAsViewId(m, 0), LAMBDA x : Goto(x, x.ret, Url(u)))

\* Action::GoToUrl(url)
DoGoToUrl(m, u) == Then(GetCurrentViewId(m), LAMBDA x : Goto(x, x.ret, Url(u)))

\* An update without the trailing render.
TrailingRenderSkipped(m, lock) == m

\* WebView::update, lines 231-234.
TrailingRender(m, lock) ==
    IF Ok(m) /\ m.cur # None THEN RenderRet(GetCurrentViewId(m), lock) ELSE m

\* A tick that renders the current view without asking whether there is one.
UpdateRenderAlways(m, lock) == RenderRet(GetCurrentViewId(m), lock)

\* The render of the Update arm, lines 219-222.
UpdateRender(m, lock) ==
    IF Ok(m) /\ m.cur # None THEN RenderRet(GetCurrentViewId(m), lock) ELSE m

\* Action::Update (returns before the trailing render)
DoUpdate(m, outcome, lock) == UpdateRender(EngineUpdate(m, outcome), lock)

\* Action::Resize(size)
DoResize(m, size) ==
    EngineResize([m EXCEPT !.view_size = size], size)

\* --------------------------------------------------------- input translation

\* Multiplier of a wheel delta expressed in lines.
LineScroll == 100

Named(n) == [kind |-> "Named", v |-> n]
Character(c) == [kind |-> "Character", v |-> c]
Unidentified == [kind |-> "Unidentified", v |-> ""]
NoKey == [kind |-> "None", v |-> ""]
NoText == "<none>"
\* Option<event::KeyEvent>::None
NoKeyEvent == [ty |-> "None"]

\* The named-key arm: key |-> (virtual key code, native key code).
NamedKeyTable ==
    "Control" :> <<"Control", 29>> @@ "Shift" :> <<"Shift", 42>> @@ "Enter" :> <<"Return", 28>> @@
    "Tab" :> <<"Tab", 15>> @@ "Space" :> <<"Space", 57>> @@ "ArrowDown" :> <<"Down", 108>> @@
    "ArrowLeft" :> <<"Right", 106>> @@ "ArrowRight" :> <<"Up", 103>> @@ "ArrowUp" :> <<"Left", 105>> @@
    "End" :> <<"End", 107>> @@ "Home" :> <<"Home", 102>> @@ "Backspace" :> <<"Back", 14>> @@
    "Delete" :> <<"Delete", 11>> @@ "Insert" :> <<"Insert", 110>> @@ "Escape" :> <<"Escape", 1>> @@
    "F1" :> <<"F1", 59>> @@ "F2" :> <<"F2", 60>> @@ "F3" :> <<"F3", 61>> @@
    "F4" :> <<"F4", 62>> @@ "F5" :> <<"F5", 63>> @@ "F6" :> <<"F6", 64>> @@
    "F7" :> <<"F7", 65>> @@ "F8" :> <<"F8", 66>> @@ "F9" :> <<"F9", 67>> @@
    "F10" :> <<"F10", 68>> @@ "F11" :> <<"F11", 69>> @@ "F12" :> <<"F12", 70>>

\* The character arm.  The key written <backquote> is the one-character string
\* holding a backquote, which a TLA+ string cannot hold.
CharacterKeyTable ==
    "a" :> <<"A", 30>> @@ "b" :> <<"B", 48>> @@ "c" :> <<"C", 46>> @@
    "d" :> <<"D", 32>> @@ "e" :> <<"E", 18>> @@ "f" :> <<"F", 33>> @@
    "g" :> <<"G", 34>> @@ "h" :> <<"H", 35>> @@ "i" :> <<"I", 23>> @@
    "j" :> <<"J", 36>> @@ "k" :> <<"K", 37>> @@ "l" :> <<"L", 38>> @@
    "m" :> <<"M", 50>> @@ "n" :> <<"N", 49>> @@ "o" :> <<"O", 24>> @@
    "p" :> <<"P", 25>> @@ "q" :> <<"Q", 16>> @@ "r" :> <<"R", 19>> @@
    "s" :> <<"S", 31>> @@ "t" :> <<"T", 20>> @@ "u" :> <<"U", 22>> @@
    "v" :> <<"V", 47>> @@ "w" :> <<"W", 17>> @@ "x" :> <<"X", 47>> @@
    "y" :> <<"Y", 21>> @@ "z" :> <<"Z", 44>> @@ "0" :> <<"Key0", 11>> @@
    "1" :> <<"Key1", 2>> @@ "2" :> <<"Key2", 3>> @@ "3" :> <<"Key3", 4>> @@
    "4" :> <<"Key4", 5>> @@ "5" :> <<"Key5", 6>> @@ "6" :> <<"Key6", 7>> @@
    "7" :> <<"Key7", 8>> @@ "8" :> <<"Key8", 9>> @@ "9" :> <<"Key9", 10>> @@
    "," :> <<"OemComma", 51>> @@ "." :> <<"OemPeriod", 52>> @@ ";" :> <<"OemPeriod", 39>> @@
    "-" :> <<"OemMinus", 12>> @@ "_" :> <<"OemMinus", 74>> @@ "+" :> <<"OemPlus", 78>> @@
    "=" :> <<"OemPlus", 78>> @@ "\\" :> <<"Oem5", 43>> @@ "|" :> <<"Oem5", 43>> @@
    "<backquote>" :> <<"Oem3", 41>> @@ "?" :> <<"Oem2", 53>> @@ "/" :> <<"Oem2", 53>> @@
    ">" :> <<"Oem102", 52>> @@ "<" :> <<"Oem102", 52>> @@ "[" :> <<"Oem4", 26>> @@
    "]" :> <<"Oem6", 27>>

\* str::is_ascii, on the texts the model feeds.
NonAsciiTexts == {"e-acute"}
IsAscii(t) == t \notin NonAsciiTexts

Modifiers(shift, ctrl, alt, logo) == [shift |-> shift, ctrl |-> ctrl, alt |-> alt, logo |-> logo]

\* The event type chosen at lines 566-575.
KeyEventType(press, ctrl, text) ==
    IF ctrl THEN "RawKeyDown"
    ELSE IF text # "" /\ IsAscii(text) /\ press = "Press" THEN "Char"
    ELSE IF press = "Press" THEN "RawKeyDown" ELSE "KeyUp"

\* iced_key_to_ultralight_key: NoKeyEvent, or the native key event descriptor.
IcedKeyToUltralightKey(press, modified_key, key, modifiers, text) ==
    IF key = NoKey \/ key.kind = "Unidentified" THEN NoKeyEvent
    ELSE IF key.kind = "Named" /\ key.v \notin DOMAIN NamedKeyTable THEN NoKeyEvent
    ELSE IF key.kind = "Character" /\ key.v \notin DOMAIN CharacterKeyTable THEN NoKeyEvent
    ELSE LET txt == IF key.kind = "Named"
                    THEN (IF key.v = "Space" THEN " " ELSE "")
                    ELSE (IF text = NoText THEN "" ELSE text)
             codes == IF key.kind = "Named" THEN NamedKeyTable[key.v]
                      ELSE CharacterKeyTable[key.v]
         IN [ty |-> KeyEventType(press, modifiers.ctrl, txt),
             modifiers |-> [alt |-> modifiers.alt, ctrl |-> modifiers.ctrl,
                            meta |-> modifiers.logo, shift |-> modifiers.shift],
             virtual_key_code |-> codes[1],
             native_key_code |-> codes[2],
             text |-> txt,
             unmodified_text |-> IF modified_key.kind = "Character" THEN modified_key.v ELSE txt]

\* keyboard::Event values.
KeyPressed(key, modified_key, modifiers, text) ==
    [ev |-> "KeyPressed", key |-> key, modified_key |-> modified_key,
     modifiers |-> modifiers, text |-> text]
KeyReleased(key, modifiers) ==
    [ev |-> "KeyReleased", key |-> key, modified_key |-> NoKey,
     modifiers |-> modifiers, text |-> NoText]
ModifiersChanged(modifiers) ==
    [ev |-> "ModifiersChanged", key |-> NoKey, modified_key |-> NoKey,
     modifiers |-> modifiers, text |-> NoText]

\* A translation that turns a modifier change into a press of the Control key.
TranslateModifiersAsControl(event) ==
    IF event.ev = "KeyPressed"
    THEN IcedKeyToUltralightKey("Press", event.modified_key, event.key, event.modifiers, event.text)
    ELSE IF event.ev = "KeyReleased"
    THEN IcedKeyToUltralightKey("Unpress", NoKey, event.key, event.modifiers, NoText)
    ELSE IcedKeyToUltralightKey("Press", NoKey, Named("Control"), event.modifiers, NoText)

\* The match at the head of handle_keyboard_event.
TranslateKeyboardEvent(event) ==
    IF event.ev = "KeyPressed"
    THEN IcedKeyToUltralightKey("Press", event.modified_key, event.key, event.modifiers, event.text)
    ELSE IF event.ev = "KeyReleased"
    THEN IcedKeyToUltralightKey("Unpress", NoKey, event.key, event.modifiers, NoText)
    ELSE IcedKeyToUltralightKey("Press", NoKey, NoKey, event.modifiers, NoText)

\* Engine::handle_keyboard_event: the view is looked up only when there is an
\* event to fire.
HandleKeyboardEvent(m, id, event) ==
    IF ~Ok(m) THEN m
    ELSE LET m1 == Call(m, [op |-> "handle_keyboard_event", id |-> id])
             key_event == TranslateKeyboardEvent(event)
             i == FindView(m.views, id)
         IN IF key_event = NoKeyEvent THEN m1
            ELSE IF i = 0 THEN Panic(m1, PanicViewNotFound)
            ELSE Fire(m1, [view |-> i, ty |-> "Key", event |-> key_event])

\* Engine::scroll
Scroll(m, id, delta) ==
    IF ~Ok(m) THEN m
    ELSE LET m1 == Call(m, [op |-> "scroll", id |-> id])
             i == FindView(m.views, id)
             dx == IF delta.unit = "Lines" THEN AsI32(delta.x) * LineScroll ELSE AsI32(delta.x)
             dy == IF delta.unit = "Lines" THEN AsI32(delta.y) * LineScroll ELSE AsI32(delta.y)
         IN IF i = 0 THEN Panic(m1, PanicViewNotFound)
            ELSE Fire(m1, [view |-> i, ty |-> "ScrollByPixel", x |-> dx, y |-> dy])

\* Engine::focus / Engine::unfocus: broadcast to every view.
Broadcast(m, what) ==
    IF ~Ok(m) THEN m
    ELSE [Call(m, [op |-> what]) EXCEPT !.fired =
            @ \o [i \in DOMAIN m.views |-> [view |-> i, ty |-> what]]]

\* A button arm that reports every button as the left one.
FireButtonLeft(m, id, ty, button, point) ==
    LET i == FindView(m.views, id)
    IN IF i = 0 THEN Panic(m, PanicViewNotFound)
       ELSE Fire(m, [view |-> i, ty |-> ty, x |-> AsI32(point.x), y |-> AsI32(point.y),
                     button |-> "Left"])

\* One of the four button arms of handle_mouse_event.
FireButton(m, id, ty, button, point) ==
    LET i == FindView(m.views, id)
    IN IF i = 0 THEN Panic(m, PanicViewNotFound)
       ELSE Fire(m, [view |-> i, ty |-> ty, x |-> AsI32(point.x), y |-> AsI32(point.y),
                     button |-> button])

\* mouse::Event values.
ButtonPressed(b) == [ev |-> "ButtonPressed", button |-> b]
ButtonReleased(b) == [ev |-> "ButtonReleased", button |-> b]
CursorMoved == [ev |-> "CursorMoved", button |-> "None"]
CursorLeft == [ev |-> "CursorLeft", button |-> "None"]
CursorEntered == [ev |-> "CursorEntered", button |-> "None"]
WheelScrolled(delta) == [ev |-> "WheelScrolled", button |-> "None", delta |-> delta]
Lines(x, y) == [unit |-> "Lines", x |-> x, y |-> y]

\* Engine::handle_mouse_event.  `hist` is the native history's answer when a
\* Forward/Back release navigates.
HandleMouseEvent(m, id, point, event, hist) ==
    IF ~Ok(m) THEN m
    ELSE LET m1 == Call(m, [op |-> "handle_mouse_event", id |-> id])
             i == FindView(m.views, id)
         IN IF event = ButtonReleased("Forward") THEN Navigate(m1, "go_forward", id, hist)
            ELSE IF event = ButtonReleased("Back") THEN Navigate(m1, "go_back", id, hist)
            ELSE IF event = ButtonPressed("Left") THEN FireButton(m1, id, "MouseDown", "Left", point)
            ELSE IF event = ButtonReleased("Left") THEN FireButton(m1, id, "MouseUp", "Left", point)
            ELSE IF event = ButtonPressed("Right") THEN FireButton(m1, id, "MouseDown", "Right", point)
            ELSE IF event = ButtonReleased("Right") THEN FireButton(m1, id, "MouseUp", "Right", point)
            ELSE IF event.ev = "CursorMoved"
            THEN (IF i = 0 THEN Panic(m1, PanicViewNotFound)
                  ELSE [m1 EXCEPT !.views[i].cursor_pos = point])
            ELSE IF event.ev = "WheelScrolled" THEN Scroll(m1, id, event.delta)
            ELSE IF event.ev = "CursorLeft" THEN Broadcast(m1, "unfocus")
            ELSE IF event.ev = "CursorEntered" THEN Broadcast(m1, "focus")
            ELSE m1

\* Action::SendKeyboardEvent(event)
DoSendKeyboardEvent(m, event) ==
    Then(GetCurrentViewId(m), LAMBDA x : HandleKeyboardEvent(x, x.ret, event))

\* Action::SendMouseEvent(event, point)
DoSendMouseEvent(m, event, point, hist) ==
    Then(GetCurrentViewId(m), LAMBDA x : HandleMouseEvent(x, x.ret, point, event, hist))

\* ------------------------------------------------------------ WebView::update

Action(type) == [type |-> type]

\* let mut tasks = Vec::new(); the call log and the event log start empty too.
Begin(m) == [m EXCEPT !.tasks = <<>>, !.calls = <<>>, !.fired = <<>>]

\* match action { ... }
Handle(m, a, nd) ==
    CASE a.type = "ChangeView" -> DoChangeView(m, a.index, nd.lock1)
      [] a.type = "CloseView" -> DoCloseView(m, a.index, nd.lock1)
      [] a.type = "CreateView" -> DoCreateView(m, a.page, nd.id)
      [] a.type = "GoBack" -> DoNavigate(m, "go_back", nd.hist)
      [] a.type = "GoForward" -> DoNavigate(m, "go_forward", nd.hist)
      [] a.type = "GoToUrl" -> DoGoToUrl(m, a.url)
      [] a.type = "Refresh" -> DoNavigate(m, "refresh", nd.hist)
      [] a.type = "SendKeyboardEvent" -> DoSendKeyboardEvent(m, a.event)
      [] a.type = "SendMouseEvent" -> DoSendMouseEvent(m, a.event, a.point, nd.hist)
      [] a.type = "Update" -> DoUpdate(m, nd.outcome, nd.lock1)
      [] a.type = "Resize" -> DoResize(m, a.size)

\* The Update arm returns; every other arm falls through to the trailing render.
Finish(m, a, lock) == IF a.type = "Update" THEN m ELSE TrailingRender(m, lock)

\* A panic returns no Task.
Returned(m) == IF Ok(m) THEN m ELSE [m EXCEPT !.tasks = <<>>]

\* WebView::update(action).  nd holds what the environment decides during the
\* call: lock1 and lock2 (whether the first and the second lock_pixels of the
\* call return Some), id (the random id of new_view), outcome (the loads that
\* end in renderer.update()) and hist (the native history's answer).
\* The two captures of one call are of the same view at the same size, so one
\* of them failing leaves the frame the other stores: the actions below let
\* the surface be lockable or not for the whole call.
Update(m, a, nd) == Returned(Finish(Handle(DetectChanges(Begin(m)), a, nd), a, nd.lock2))

\* WebView::init
WebViewInit(m, id) == SetCurrent(PushRet(NewView(Begin(m), m.view_size, StartPage, id)), 0)

\* WebView::default
WebViewDefault(dbg, cb) ==
    [dbg |-> dbg, cb |-> cb, views |-> <<>>, view_size |-> DefaultSize, cur |-> None,
     view_ids |-> <<>>, url |-> "", title |-> "", panic |-> NoPanic,
     calls |-> <<>>, fired |-> <<>>, tasks |-> <<>>, ret |-> 0]

\* ----------------------------------------------------------------- the state

\* The machine record of the current state.
M ==
    [dbg |-> overflow_checks, cb |-> callbacks, views |-> views, view_size |-> view_size,
     cur |-> current_view_index, view_ids |-> view_ids, url |-> url, title |-> title,
     panic |-> panic, calls |-> calls, fired |-> fired, tasks |-> tasks, ret |-> 0]

\* The next state holds the fields of r, the machine after handling a.
Becomes(r, a) ==
    /\ views' = r.views
    /\ view_size' = r.view_size
    /\ current_view_index' = r.cur
    /\ view_ids' = r.view_ids
    /\ url' = r.url
    /\ title' = r.title
    /\ panic' = r.panic
    /\ calls' = r.calls
    /\ fired' = r.fired
    /\ tasks' = r.tasks
    /\ last_action' = a
    /\ budget' = budget - 1
    /\ UNCHANGED <<overflow_checks, callbacks, imgVars>>

\* A call made on a WebView directly: there is no AppModel around it.
Step(r, a) == Becomes(r, a) /\ UNCHANGED hostVars

\* The callbacks AppModel::init registers, and a WebView with all four.
AppCallbacks == [create |-> TRUE, close |-> FALSE, url |-> TRUE, title |-> TRUE]
CallbackConfigs == {AppCallbacks, [AppCallbacks EXCEPT !.close = TRUE]}

Running == panic = NoPanic /\ budget > 0

\* What rand::thread_rng().gen() may return.  Ids are only ever compared for
\* equality, so all ids that no view holds behave alike: the draw is either
\* the id of a live view or the least id no view holds.
LiveIds == {view_ids[i] : i \in DOMAIN view_ids} \cup {views[i].id : i \in DOMAIN views}
RngIds == LiveIds \cup {id \in ViewIds \ LiveIds : \A other \in ViewIds \ LiveIds : id <= other}
NoND == [lock1 |-> TRUE, lock2 |-> TRUE, id |-> 0, outcome |-> <<>>, hist |-> NoLoad]

\* Inputs.
Indices == 0..MaxViews
Outcomes == {"pending", "done", "failed"}
HistPages == {NoLoad, StartPage}
KeyboardEvents ==
    LET none == Modifiers(FALSE, FALSE, FALSE, FALSE)
        ctrl == Modifiers(FALSE, TRUE, FALSE, FALSE)
    IN {KeyPressed(Character("a"), Character("a"), none, "a"),
        KeyReleased(Character("a"), none),
        KeyPressed(Named("ArrowLeft"), Named("ArrowLeft"), none, NoText),
        KeyPressed(Unidentified, Unidentified, none, NoText),
        ModifiersChanged(ctrl)}
\* The cursor position the widget reports, in halves: (3.5, 2).
Points == {Point(7, 4)}
MouseEvents ==
    {ButtonPressed("Left"), ButtonReleased("Left"), ButtonReleased("Back"),
     ButtonPressed("Middle"), CursorMoved, CursorEntered,
     WheelScrolled(Lines(1, 4))}

Fresh ==
    /\ overflow_checks \in BOOLEAN
    /\ views = <<>>
    /\ view_size = DefaultSize
    /\ current_view_index = None
    /\ view_ids = <<>>
    /\ url = ""
    /\ title = ""
    /\ panic = NoPanic
    /\ last_action = Action("new")
    /\ calls = <<>>
    /\ fired = <<>>
    /\ tasks = <<>>

\* No AppModel: a WebView used on its own.
NoHost ==
    /\ num_views = 0
    /\ nav = <<>>
    /\ webview_url = ""
    /\ pending = EmptyBag
    /\ exited = FALSE
    /\ last_message = [msg |-> "none"]

\* No ImageInfo built outside the engine.
NoImage ==
    /\ image = [pixels |-> <<>>, width |-> 0, height |-> 0]
    /\ raw = <<>>
    /\ formats = <<>>

Init == Fresh /\ NoHost /\ NoImage /\ callbacks \in CallbackConfigs /\ budget = MaxSteps
InitAll == Fresh /\ NoHost /\ NoImage /\ callbacks = AppCallbacks /\ budget = MaxStepsAll

\* WebView::init, called by a host that has no current view yet.
InitView ==
    /\ Running
    /\ current_view_index = None
    /\ view_ids = <<>>
    /\ \E id \in RngIds : Step(WebViewInit(M, id), Action("init"))

ChangeView ==
    /\ Running
    /\ \E index \in Indices, lock \in BOOLEAN :
          LET a == [type |-> "ChangeView", index |-> index]
          IN Step(Update(M, a, [NoND EXCEPT !.lock1 = lock, !.lock2 = lock]), a)

CloseView ==
    /\ Running
    /\ \E index \in Indices, lock \in BOOLEAN :
          LET a == [type |-> "CloseView", index |-> index]
          IN Step(Update(M, a, [NoND EXCEPT !.lock1 = lock, !.lock2 = lock]), a)

CreateViewUpTo(limit) ==
    /\ Running
    /\ Len(view_ids) < limit
    /\ \E page \in CreatePages, id \in RngIds, lock2 \in BOOLEAN :
          LET a == [type |-> "CreateView", page |-> page]
          IN Step(Update(M, a, [NoND EXCEPT !.id = id, !.lock2 = lock2]), a)

GoBack ==
    /\ Running
    /\ \E hist \in HistPages, lock2 \in BOOLEAN :
          Step(Update(M, Action("GoBack"), [NoND EXCEPT !.hist = hist, !.lock2 = lock2]),
                  Action("GoBack"))

GoForward ==
    /\ Running
    /\ \E hist \in HistPages, lock2 \in BOOLEAN :
          Step(Update(M, Action("GoForward"), [NoND EXCEPT !.hist = hist, !.lock2 = lock2]),
                  Action("GoForward"))

GoToUrl ==
    /\ Running
    /\ \E u \in GotoUrls, lock2 \in BOOLEAN :
          LET a == [type |-> "GoToUrl", url |-> u]
          IN Step(Update(M, a, [NoND EXCEPT !.lock2 = lock2]), a)

Refresh ==
    /\ Running
    /\ \E lock2 \in BOOLEAN :
          Step(Update(M, Action("Refresh"), [NoND EXCEPT !.lock2 = lock2]), Action("Refresh"))

SendKeyboardEvent ==
    /\ Running
    /\ \E event \in KeyboardEvents, lock2 \in BOOLEAN :
          LET a == [type |-> "SendKeyboardEvent", event |-> event]
          IN Step(Update(M, a, [NoND EXCEPT !.lock2 = lock2]), a)

SendMouseEvent ==
    /\ Running
    /\ \E event \in MouseEvents, point \in Points, hist \in HistPages, lock2 \in BOOLEAN :
          LET a == [type |-> "SendMouseEvent", event |-> event, point |-> point]
          IN Step(Update(M, a, [NoND EXCEPT !.hist = hist, !.lock2 = lock2]), a)

UpdateTick ==
    /\ Running
    /\ \E outcome \in [DOMAIN views -> Outcomes], lock1 \in BOOLEAN :
          Step(Update(M, Action("Update"), [NoND EXCEPT !.outcome = outcome, !.lock1 = lock1]),
                  Action("Update"))

Resize ==
    /\ Running
    /\ \E size \in ResizeSizes, lock2 \in BOOLEAN :
          LET a == [type |-> "Resize", size |-> size]
          IN Step(Update(M, a, [NoND EXCEPT !.lock2 = lock2]), a)

CreateView == CreateViewUpTo(MaxViews)
CreateViewAll == CreateViewUpTo(MaxViewsAll)

\* The life cycle of views: creation, switching, closing, resizing, the tick.
Next ==
    \/ InitView
    \/ ChangeView
    \/ CloseView
    \/ CreateView
    \/ UpdateTick
    \/ Resize

Spec == Init /\ [][Next]_vars

\* Every Action of the protocol.
NextAll ==
    \/ InitView
    \/ ChangeView
    \/ CloseView
    \/ CreateViewAll
    \/ GoBack
    \/ GoForward
    \/ GoToUrl
    \/ Refresh
    \/ SendKeyboardEvent
    \/ SendMouseEvent
    \/ UpdateTick
    \/ Resize

SpecAll == InitAll /\ [][NextAll]_vars

\* Engine::render(size), the capture pass of the Engine trait, called with the
\* stored viewport size or with another size.
Render ==
    /\ Running
    /\ \E size \in {view_size, Size(800, 600)}, lock \in [DOMAIN views -> BOOLEAN] :
          Step(EngineRender(Begin(M), size, lock), [type |-> "Render", size |-> size])

\* The engine under a WebView and under capture passes: views are created,
\* navigated, ticked, resized and captured by either path.
NextEngine ==
    \/ InitView
    \/ CreateViewAll
    \/ GoToUrl
    \/ UpdateTick
    \/ Resize
    \/ Render

SpecEngine == InitAll /\ [][NextEngine]_vars

\* ------------------------------------------------- input delivered to the engine

\* ScrollDelta::Pixels { x, y }
PixelDelta(x, y) == [unit |-> "Pixels", x |-> x, y |-> y]

\* The keyboard events fed to Engine::handle_keyboard_event: a press and a
\* release of every key of the two tables and of keys outside them; presses of
\* a few keys under ctrl and shift with several input texts; releases under
\* ctrl and shift; modifier changes.
NoMods == Modifiers(FALSE, FALSE, FALSE, FALSE)
CtrlMods == Modifiers(FALSE, TRUE, FALSE, FALSE)
ShiftMods == Modifiers(TRUE, FALSE, FALSE, FALSE)
TableKeys ==
    {Named(n) : n \in DOMAIN NamedKeyTable} \cup {Character(c) : c \in DOMAIN CharacterKeyTable}
OtherKeys == {Named("CapsLock"), Character("e-acute"), Character("A"), Unidentified}
SomeKeys == {Character("a"), Named("Space"), Named("Enter"), Named("CapsLock")}
TextOf(k) == IF k.kind = "Character" THEN k.v ELSE NoText
InputKeyEvents ==
    {KeyPressed(k, k, NoMods, TextOf(k)) : k \in TableKeys \cup OtherKeys}
    \cup {KeyReleased(k, NoMods) : k \in TableKeys \cup OtherKeys}
    \cup {KeyPressed(k, k, mods, text) :
            k \in SomeKeys, mods \in {NoMods, CtrlMods, ShiftMods},
            text \in {NoText, "", "A", "e-acute"}}
    \cup {KeyReleased(k, mods) : k \in SomeKeys, mods \in {CtrlMods, ShiftMods}}
    \cup {ModifiersChanged(mods) : mods \in {NoMods, CtrlMods, ShiftMods}}

\* The mouse events fed to Engine::handle_mouse_event, and the positions they
\* come with, in halves: (3.5, 2) and (20, 0.5).
Buttons == {"Left", "Right", "Middle", "Back", "Forward", "Other"}
InputPoints == {Point(7, 4), Point(40, 1)}
InputMouseEvents ==
    {ButtonPressed(b) : b \in Buttons} \cup {ButtonReleased(b) : b \in Buttons}
    \cup {CursorMoved, CursorLeft, CursorEntered}
    \cup {WheelScrolled(d) : d \in {Lines(4, -2), Lines(1, 0), PixelDelta(7, -30), PixelDelta(0, 1)}}

\* Engine::handle_keyboard_event(id, event), for the id of a live view.
HandleKey ==
    /\ Running
    /\ \E id \in LiveIds, event \in InputKeyEvents :
          Step(HandleKeyboardEvent(Begin(M), id, event),
               [type |-> "handle_keyboard_event", id |-> id, event |-> event])

\* Engine::handle_mouse_event(id, point, event), for the id of a live view.
HandleMouse ==
    /\ Running
    /\ \E id \in LiveIds, point \in InputPoints, event \in InputMouseEvents, hist \in HistPages :
          Step(HandleMouseEvent(Begin(M), id, point, event, hist),
               [type |-> "handle_mouse_event", id |-> id, point |-> point, event |-> event])

\* The engine under pointer input: views are created, receive mouse events,
\* and are painted by the tick's request_render or by a capture pass.
NextInput ==
    \/ CreateViewAll
    \/ HandleMouse
    \/ UpdateTick
    \/ Render

\* The engine under keyboard input.
NextKeys ==
    \/ CreateViewAll
    \/ HandleKey

\* A WebView after WebView::init(): one view, made current, loading the start page.
AfterInit ==
    /\ overflow_checks \in BOOLEAN
    /\ callbacks = AppCallbacks
    /\ LET m == WebViewInit(WebViewDefault(overflow_checks, callbacks), 1)
       IN /\ views = m.views
          /\ view_size = m.view_size
          /\ current_view_index = m.cur
          /\ view_ids = m.view_ids
          /\ url = m.url
          /\ title = m.title
          /\ panic = m.panic
          /\ calls = m.calls
          /\ fired = m.fired
          /\ tasks = m.tasks
    /\ last_action = Action("init")
    /\ NoHost
    /\ NoImage

InitInput == AfterInit /\ budget = MaxStepsInput
InitKeys == AfterInit /\ budget = MaxStepsKeys

SpecInput == InitInput /\ [][NextInput]_vars

SpecKeys == InitKeys /\ [][NextKeys]_vars

\* ------------------------------------------------------- ImageInfo on its own

\* The byte values and the raw buffers given to ImageInfo::new: every buffer of
\* up to MaxPixels whole pixels, and the buffers of 2 bytes, which are no whole
\* number of pixels.
Bytes == {0, 255}
Buffers == UNION {[1..n -> Bytes] : n \in {4 * k : k \in 0..MaxPixels} \cup {2}}
PixelFormats == {"Rgba", "Bgra"}

\* A raw buffer and no ImageInfo yet.
InitImage ==
    /\ Fresh
    /\ NoHost
    /\ callbacks = AppCallbacks
    /\ raw \in Buffers
    /\ image = [pixels |-> raw, width |-> 0, height |-> 0]
    /\ formats = <<>>
    /\ budget = MaxPasses

\* ImageInfo::new(pixels, format, width, height), on the raw buffer first and
\* then on the bytes of the ImageInfo built before (a frame fed back as a
\* source, as in a round trip through the other channel order).
NewImage ==
    /\ Running
    /\ \E format \in PixelFormats, size \in {Size(1, 2), Size(2, 1)} :
          LET built == ImageInfoNewBytes(image.pixels, format, size.width, size.height)
          IN /\ IF "panic" \in DOMAIN built
                THEN panic' = built.panic /\ UNCHANGED <<image, formats>>
                ELSE image' = built /\ formats' = Append(formats, format) /\ UNCHANGED panic
             /\ last_action' = [type |-> "ImageInfo::new", format |-> format, size |-> size]
    /\ budget' = budget - 1
    /\ UNCHANGED <<overflow_checks, callbacks, views, view_size, current_view_index, view_ids,
                   url, title, calls, fired, tasks, raw, hostVars>>

SpecImage == InitImage /\ [][NewImage]_vars

\* ----------------------------------------------------------------- AppModel

\* Option<String>::None of webview_url.
NoUrl == "<none>"

Message(msg) == [msg |-> msg]
WebViewMessage(a) == [msg |-> "WebView", action |-> a]

\* A host that registered no on_create_view message: the notification is
\* passed on as it is and never counted.
HostMessageUnregistered(t) == t

\* The Message a notification of the WebView carries, as registered in
\* AppModel::init: on_create_view(Message::WebViewCreated),
\* on_url_change(Message::UrlChanged), on_title_change(Message::TitleChanged).
HostMessage(t) == IF t.msg = "on_create_view" THEN Message("WebViewCreated") ELSE t

\* The messages of a returned Task::batch, as a bag: the runtime delivers them
\* in no fixed order.
TaskMessages(ts) ==
    LET msgs == {HostMessage(ts[i]) : i \in DOMAIN ts}
    IN [x \in msgs |-> Cardinality({i \in DOMAIN ts : HostMessage(ts[i]) = x})]

\* The AppModel fields of the current state.
H ==
    [num_views |-> num_views, nav |-> nav, webview_url |-> webview_url,
     pending |-> pending, exited |-> exited]

\* A handler that passes no Action to the WebView.
Idle(h, m) ==
    [h |-> h, m |-> [m EXCEPT !.tasks = <<>>, !.calls = <<>>, !.fired = <<>>],
     a |-> Action("none")]

\* return self.webview.update(action): the returned task's messages are queued.
Dispatch(h, m, a, nd) ==
    LET r == Update(m, a, nd)
    IN [h |-> [h EXCEPT !.pending = @ (+) TaskMessages(r.tasks)], m |-> r, a |-> a]

\* The exit test off by one: the last tab is never recognised.
LastTabClosedBelowZero(n) == n < 0

\* if self.num_views < 1 { return cosmic::iced::exit(); }
LastTabClosed(n) == n < 1

\* for tab in self.nav.iter(): every tab above the closed view index moves down
\* by one; then self.nav.remove(id).
ShiftTabs(tabs, id) ==
    LET view_index == tabs[id]
        shifted == [t \in DOMAIN tabs |-> IF tabs[t] > view_index THEN tabs[t] - 1 ELSE tabs[t]]
    IN RemoveAt(shifted, id - 1)

\* Message::CloseTab(id), for a tab the nav bar holds (id is its position).
OnCloseTab(h, m, id, nd) ==
    LET view_index == h.nav[id]
        h1 == [h EXCEPT !.num_views = @ - 1]
    IN IF LastTabClosed(h1.num_views)
       THEN Idle([h1 EXCEPT !.exited = TRUE], m)
       ELSE LET r == Dispatch(h1, m, [type |-> "CloseView", index |-> view_index], nd)
            IN IF Ok(r.m) THEN [r EXCEPT !.h.nav = ShiftTabs(@, id)] ELSE r

\* Message::NewTab
OnNewTab(h, m, nd) ==
    Dispatch([h EXCEPT !.nav = Append(@, h.num_views)], m,
             [type |-> "CreateView", page |-> StartPage], nd)

\* Message::UrlChanged(url): the tab caption is read with
\* get_current_view_title(), which looks the current view up.
OnUrlChanged(h, m, u) ==
    [Idle([h EXCEPT !.webview_url = u], m) EXCEPT
        !.m.panic = Then(GetCurrentViewId(m), LAMBDA x : GetTitle(x, x.ret)).panic]

\* AppModel::update(message).  The captions of the tabs and which tab is
\* active are kept by the nav bar model and are not part of this state.
AppUpdate(h, m, message, nd) ==
    CASE message.msg = "WebView" -> Dispatch(h, m, message.action, nd)
      [] message.msg = "WebViewCreated" ->
            Idle([h EXCEPT !.num_views = @ + 1,
                           !.pending = @ (+) SetToBag({Message("CycleWebView")})], m)
      [] message.msg = "UrlChanged" -> OnUrlChanged(h, m, message.arg)
      [] message.msg = "TitleChanged" -> Idle(h, m)
      [] message.msg = "CycleWebView" ->
            Dispatch(h, m, [type |-> "ChangeView", index |-> h.num_views - 1], nd)
      [] message.msg = "GotoTab" ->
            IF message.tab <= h.num_views
            THEN Dispatch(h, m, [type |-> "ChangeView", index |-> message.tab], nd)
            ELSE Idle(h, m)
      [] message.msg = "NewTab" -> OnNewTab(h, m, nd)
      [] message.msg = "CloseTab" -> OnCloseTab(h, m, message.id, nd)

\* AppModel::on_nav_select(id): the tab's view index is sent as GotoTab.
OnNavSelect(h, m, id) ==
    Idle([h EXCEPT !.pending = @ (+) SetToBag({[msg |-> "GotoTab", tab |-> h.nav[id]]})], m)

\* The next state holds the AppModel and the WebView of r.
HostBecomes(r, message) ==
    /\ Becomes(r.m, r.a)
    /\ num_views' = r.h.num_views
    /\ nav' = r.h.nav
    /\ webview_url' = r.h.webview_url
    /\ pending' = r.h.pending
    /\ exited' = r.h.exited
    /\ last_message' = message

\* AppModel::init: the callbacks are registered, webview.init() creates view 0
\* and the first tab carries view index 0.
AppInit ==
    /\ overflow_checks \in BOOLEAN
    /\ callbacks = AppCallbacks
    /\ LET m == WebViewInit(WebViewDefault(overflow_checks, callbacks), 1)
       IN /\ views = m.views
          /\ view_size = m.view_size
          /\ current_view_index = m.cur
          /\ view_ids = m.view_ids
          /\ url = m.url
          /\ title = m.title
          /\ panic = m.panic
          /\ calls = m.calls
          /\ fired = m.fired
          /\ tasks = m.tasks
    /\ last_action = Action("init")
    /\ num_views = 1
    /\ nav = <<0>>
    /\ webview_url = NoUrl
    /\ pending = EmptyBag
    /\ exited = FALSE
    /\ last_message = Message("init")
    /\ NoImage

InitApp == AppInit /\ budget = MaxStepsApp

AppRunning == Running /\ ~exited

\* Ctrl+T or the new-tab button.
NewTab ==
    /\ AppRunning
    /\ Len(nav) < MaxTabs
    /\ \E id \in RngIds, lock2 \in BOOLEAN :
          HostBecomes(AppUpdate(H, M, Message("NewTab"), [NoND EXCEPT !.id = id, !.lock2 = lock2]),
                      Message("NewTab"))

\* The close button of a tab.
CloseTab ==
    /\ AppRunning
    /\ \E id \in DOMAIN nav, lock \in BOOLEAN :
          LET message == [msg |-> "CloseTab", id |-> id]
          IN HostBecomes(AppUpdate(H, M, message,
                                   [NoND EXCEPT !.lock1 = lock, !.lock2 = lock]), message)

\* A click on a tab.
NavSelect ==
    /\ AppRunning
    /\ \E id \in DOMAIN nav :
          HostBecomes(OnNavSelect(H, M, id), [msg |-> "on_nav_select", id |-> id])

\* time::every(10 ms) mapped to Message::WebView(Action::Update).
Tick ==
    /\ AppRunning
    /\ \E outcome \in [DOMAIN views -> Outcomes], lock1 \in BOOLEAN :
          LET message == WebViewMessage(Action("Update"))
          IN HostBecomes(AppUpdate(H, M, message,
                                   [NoND EXCEPT !.outcome = outcome, !.lock1 = lock1]), message)

\* The widget publishes Action::Resize when its layout differs from the frame.
WidgetResize ==
    /\ AppRunning
    /\ \E size \in ResizeSizes, lock2 \in BOOLEAN :
          LET message == WebViewMessage([type |-> "Resize", size |-> size])
          IN HostBecomes(AppUpdate(H, M, message, [NoND EXCEPT !.lock2 = lock2]), message)

\* The runtime delivers one of the queued messages.
Deliver ==
    /\ AppRunning
    /\ \E message \in BagToSet(pending), lock \in BOOLEAN :
          HostBecomes(AppUpdate([H EXCEPT !.pending = @ (-) SetToBag({message})], M, message,
                                [NoND EXCEPT !.lock1 = lock, !.lock2 = lock]), message)

NextApp ==
    \/ NewTab
    \/ CloseTab
    \/ NavSelect
    \/ Tick
    \/ WidgetResize
    \/ Deliver

SpecApp == InitApp /\ [][NextApp]_vars

\* -------------------------------------------------------------------- tabs

\* The tab bar alone: tabs are opened, selected and closed, and the messages
\* these handlers return are delivered in any order.
NextTabs ==
    \/ NewTab
    \/ CloseTab
    \/ NavSelect
    \/ Deliver

InitTabs == AppInit /\ budget = MaxStepsTabs

SpecTabs == InitTabs /\ [][NextTabs]_vars

\* New tabs and their follow-ups alone.
NextNewTabs ==
    \/ NewTab
    \/ Deliver

InitNewTabs == AppInit /\ budget = MaxStepsNewTabs

\* ENABLED <<Deliver>>_vars: a message is queued and the application runs
\* (HostBecomes assigns every variable and lowers budget, so each queued
\* message has a Deliver step that changes vars).
DeliverEnabled == AppRunning /\ pending # EmptyBag

\* The runtime runs every Task a handler returns, so a queued message is
\* delivered sooner or later: weak fairness of Deliver, WF_vars(Deliver),
\* written out with the enabling condition above.
FairDelivery == []<>(~DeliverEnabled) \/ []<><<Deliver>>_vars

SpecNewTabs == InitNewTabs /\ [][NextNewTabs]_vars /\ FairDelivery

\* ------------------------------------------------------------------- claims

\* The frame Engine::get_view hands out for the current view.
CurrentFrame == views[FindView(views, view_ids[current_view_index + 1])].last_frame

\* Ids are pairwise distinct and the viewport is high enough for the resize
\* quirk: states in which neither a repeated id nor the height subtraction
\* takes part in what follows.
PlainState ==
    /\ \A i, j \in DOMAIN view_ids : i # j => view_ids[i] # view_ids[j]
    /\ \A i, j \in DOMAIN views : i # j => views[i].id # views[j].id
    /\ view_size.height >= ResizeQuirk

\* C1: the ids of the views created so far are pairwise distinct, in the
\* orchestrator's view_ids and among the engine's live views: new_view never
\* hands out the id of a view that is still live.
C1_DistinctViewIds ==
    /\ \A i, j \in DOMAIN view_ids : i # j => view_ids[i] # view_ids[j]
    /\ \A i, j \in DOMAIN views : i # j => views[i].id # views[j].id

\* C2: ChangeView(i) with i outside [0, N) is rejected: the current index,
\* view_ids and the stored viewport size are what they were before the action,
\* and the action ends in the explicit "Failed to find index" rejection.
C2_OutOfRangeChangeViewRejected ==
    [][(/\ last_action'.type = "ChangeView"
        /\ last_action'.index >= Len(view_ids))
       => /\ current_view_index' = current_view_index
          /\ view_ids' = view_ids
          /\ view_size' = view_size
          /\ panic' = PanicNoIndex]_vars

\* C3: with N >= 2 views, CloseView(c) of the current index c completes, makes
\* max(0, c - 1) the current index and ends with a forced render of the view
\* now at that index.  (Stated for states with distinct ids and a viewport
\* height of at least 10.)
C3_CloseCurrentView ==
    [][(/\ last_action'.type = "CloseView"
        /\ PlainState
        /\ Len(view_ids) >= 2
        /\ current_view_index # None
        /\ current_view_index < Len(view_ids)
        /\ last_action'.index = current_view_index)
       => /\ panic' = NoPanic
          /\ current_view_index' = (IF current_view_index > 1 THEN current_view_index - 1 ELSE 0)
          /\ calls' # <<>>
          /\ calls'[Len(calls')].op = "request_render"
          /\ calls'[Len(calls')].id = view_ids'[current_view_index' + 1]]_vars

\* C4: CloseView(0) on an orchestrator holding exactly one view raises no
\* lookup failure, and the current index does not refer to a position that is
\* not in view_ids afterwards.
C4_CloseOnlyView ==
    [][(/\ last_action'.type = "CloseView"
        /\ last_action'.index = 0
        /\ Len(view_ids) = 1
        /\ current_view_index = 0)
       => /\ panic' = NoPanic
          /\ (current_view_index' = None \/ current_view_index' < Len(view_ids'))]_vars

\* C5: CloseTab while num_views is 1 returns the exit task and passes no
\* Action to the WebView: its views, view_ids and current index stay as they
\* were.
C5_LastTabExits ==
    [][(last_message'.msg = "CloseTab" /\ num_views = 1)
       => /\ exited'
          /\ last_action'.type = "none"
          /\ calls' = <<>>
          /\ view_ids' = view_ids
          /\ current_view_index' = current_view_index
          /\ views' = views
          /\ panic' = NoPanic]_vars

\* The last tab was closed and the application left, the only view untouched.
C5_Witness ==
    /\ exited
    /\ last_message.msg = "CloseTab"
    /\ Len(view_ids) = 1
    /\ current_view_index = 0
    /\ Len(views) = 1

\* C6: CloseView(i) of an entry that exists, with a current index c: the entry
\* at position i is removed and the later entries move down by one; if
\* i <= max(0, c - 1) the current index becomes max(0, c - 1) and the action
\* goes through the two resizes and a forced render of the view now at that
\* index; otherwise the current index stays c.
C6_CloseViewRule ==
    [][(/\ last_action'.type = "CloseView"
        /\ current_view_index # None
        /\ last_action'.index < Len(view_ids))
       => LET i == last_action'.index
              c == current_view_index
              shifted == IF c > 1 THEN c - 1 ELSE 0
              renders == SelectSeq(calls', LAMBDA call : call.op = "request_render")
              resizes == SelectSeq(calls', LAMBDA call : call.op = "resize")
          IN /\ view_ids' = [k \in 1..(Len(view_ids) - 1) |->
                                IF k <= i THEN view_ids[k] ELSE view_ids[k + 1]]
             /\ IF i <= shifted
                THEN /\ current_view_index' = shifted
                     /\ Len(resizes) = 2
                     /\ renders # <<>>
                     /\ renders[1].id = view_ids'[shifted + 1]
                ELSE current_view_index' = c]_vars

\* The url and title notifications among the tasks of a call, in order.
Notified(ts, msg) == SelectSeq(ts, LAMBDA t : t.msg = msg)

\* C7: with the url and title callbacks registered, a call of update that
\* completes notifies a url (title) change exactly when the url (title) the
\* current view reports at the start of the call differs from the one last
\* observed, once, carrying the value read, which becomes the one last
\* observed; without a current view nothing is notified or observed.
C7_EdgeTriggered ==
    [][(/\ panic' = NoPanic
        /\ last_action'.type \notin {"init", "none"}
        /\ callbacks.url /\ callbacks.title)
       => IF current_view_index = None
          THEN /\ Notified(tasks', "UrlChanged") = <<>>
               /\ Notified(tasks', "TitleChanged") = <<>>
               /\ url' = url
               /\ title' = title
          ELSE LET v == views[FindView(views, view_ids[current_view_index + 1])]
               IN /\ Notified(tasks', "UrlChanged") =
                        (IF NativeUrl(v) # url
                         THEN <<[msg |-> "UrlChanged", arg |-> NativeUrl(v)]>> ELSE <<>>)
                  /\ url' = NativeUrl(v)
                  /\ Notified(tasks', "TitleChanged") =
                        (IF NativeTitle(v) # title
                         THEN <<[msg |-> "TitleChanged", arg |-> NativeTitle(v)]>> ELSE <<>>)
                  /\ title' = NativeTitle(v)]_vars

\* A tick that notifies nothing although the url and title of the start page
\* have been observed: the change was reported by an earlier call and is not
\* reported again.
C7_Witness ==
    /\ panic = NoPanic
    /\ last_action.type = "Update"
    /\ current_view_index # None
    /\ url = "about:blank"
    /\ title = "New Tab"
    /\ Notified(tasks, "UrlChanged") = <<>>
    /\ Notified(tasks, "TitleChanged") = <<>>

\* C8: after a completed action other than Update, with a current view, the
\* last call made on the engine is request_render of the current view with the
\* stored viewport size; a completed Update with a current view makes exactly
\* one request_render.
C8_TrailingRender ==
    (/\ panic = NoPanic
     /\ current_view_index # None
     /\ last_action.type \notin {"new", "init", "none"})
    => IF last_action.type = "Update"
       THEN Len(SelectSeq(calls, LAMBDA call : call.op = "request_render")) = 1
       ELSE /\ calls # <<>>
            /\ calls[Len(calls)].op = "request_render"
            /\ calls[Len(calls)].id = view_ids[current_view_index + 1]
            /\ calls[Len(calls)].size = view_size

\* A GoToUrl completed with a current view: goto, then the trailing render.
C8_Witness ==
    /\ panic = NoPanic
    /\ current_view_index # None
    /\ last_action.type = "GoToUrl"
    /\ Len(calls) = 2

\* Every capture of the last call found the surface lockable.
SurfaceLocked == \A k \in DOMAIN calls : calls[k].op = "request_render" => calls[k].locked

\* C9: after a completed action that leaves a current view, the frame stored
\* for the current view has the width and height of the stored viewport size,
\* provided the captures of the action could lock the surface.
C9_FrameHasViewportSize ==
    (/\ panic = NoPanic
     /\ current_view_index # None
     /\ last_action.type \notin {"new", "init", "none"}
     /\ SurfaceLocked)
    => /\ CurrentFrame.width = view_size.width
       /\ CurrentFrame.height = view_size.height

\* A Resize to 800x600 completed and the current view's frame is 800x600.
C9_Witness ==
    /\ panic = NoPanic
    /\ current_view_index # None
    /\ last_action.type = "Resize"
    /\ SurfaceLocked
    /\ view_size = Size(800, 600)
    /\ CurrentFrame.width = 800
    /\ CurrentFrame.height = 600

\* C10: every frame a view holds has pixels.len() == width * height * 4.
C10_PixelsLength ==
    \A i \in DOMAIN views :
        PixelsLenIs(views[i].last_frame.pixels,
                    views[i].last_frame.width * views[i].last_frame.height * 4)

\* The pass in which every surface can be locked.
AllLocked == [i \in DOMAIN views |-> TRUE]

\* C11: every frame a view holds is in RGBA order (or blank), and the two capture
\* paths agree: for a view the capture pass would capture, the frame
\* Engine::render stores and the frame Engine::request_render stores, from the
\* same surface and with the same size, are the same bytes.
C11_CanonicalFrames ==
    \A i \in DOMAIN views :
        /\ views[i].last_frame.pixels.order \in {"Rgba", "White"}
        /\ (panic = NoPanic /\ NeedsCapture(views[i]) /\ FindView(views, views[i].id) = i)
             => EngineRender(M, view_size, AllLocked).views[i].last_frame
                  = RequestRender(M, views[i].id, view_size, TRUE).views[i].last_frame

\* C12: ImageInfo::new on a buffer of whole pixels keeps the length and stores
\* width and height as given; for Rgba the bytes stored are the bytes given,
\* for Bgra bytes 0 and 2 of every pixel have changed places and bytes 1 and 3
\* are where they were.
C12_ImageInfoNew ==
    [][(last_action'.type = "ImageInfo::new" /\ panic' = NoPanic)
       => LET given == image.pixels
              out == image'.pixels
          IN /\ Len(out) = Len(given)
             /\ image'.width = last_action'.size.width
             /\ image'.height = last_action'.size.height
             /\ IF last_action'.format = "Rgba" THEN out = given
                ELSE \A k \in 0..((Len(given) \div 4) - 1) :
                        /\ out[4 * k + 1] = given[4 * k + 3]
                        /\ out[4 * k + 3] = given[4 * k + 1]
                        /\ out[4 * k + 2] = given[4 * k + 2]
                        /\ out[4 * k + 4] = given[4 * k + 4]]_vars

\* A Bgra pass over two pixels, which changed the bytes and stored 1 x 2.
C12_Witness ==
    /\ panic = NoPanic
    /\ last_action.type = "ImageInfo::new"
    /\ formats = <<"Bgra">>
    /\ Len(raw) = 8
    /\ image.pixels # raw
    /\ image.width = 1
    /\ image.height = 2

\* C13: the Bgra exchange is an involution: after an even number of Bgra passes
\* (and any number of Rgba passes) the bytes are the raw buffer's again.
C13_SwapInvolution ==
    (panic = NoPanic /\ Len(SelectSeq(formats, LAMBDA f : f = "Bgra")) % 2 = 0)
    => image.pixels = raw

\* Two Bgra passes over a buffer in which some pixel has different bytes 0 and 2.
C13_Witness ==
    /\ panic = NoPanic
    /\ formats = <<"Bgra", "Bgra">>
    /\ Len(raw) = 8
    /\ \E k \in 0..1 : raw[4 * k + 1] # raw[4 * k + 3]
    /\ image.pixels = raw

\* C14: an Engine operation given an id that no live view has ends in the
\* ViewNotFound failure: a handler that starts with no live view, creates none
\* and passes a view id to the engine does not complete, it panics with
\* "The requested View id was not found".
C14_UnknownIdIsFatal ==
    [][(/\ views = <<>>
        /\ panic = NoPanic
        /\ calls' # <<>>
        /\ \A k \in DOMAIN calls' : calls'[k].op # "new_view"
        /\ \E k \in DOMAIN calls' : "id" \in DOMAIN calls'[k])
       => panic' = PanicViewNotFound]_vars

\* C15: goto leaves the view marked was_loading, and the mark of a view whose
\* load is in flight survives every call made while the load stays in flight
\* (request_render and render included), so that the pass after the load has
\* ended still finds it.
C15_LoadingMarkSurvives ==
    [][/\ (last_action'.type = "GoToUrl" /\ panic' = NoPanic)
            => views'[FindView(views', view_ids'[current_view_index' + 1])].was_loading
       /\ \A i \in DOMAIN views :
            (/\ i \in DOMAIN views'
             /\ views'[i].id = views[i].id
             /\ views[i].was_loading
             /\ views[i].loading # NoLoad
             /\ views'[i].loading = views[i].loading)
            => views'[i].was_loading]_vars

\* C16: a capture pass leaves alone every view that neither needs paint nor has
\* just gone from loading to loaded: its last_frame and was_loading are what
\* they were, and a view whose frame or mark changed was one of the others.
C16_RenderSkipsUpToDate ==
    [][(last_action'.type = "Render")
       => /\ Len(views') = Len(views)
          /\ \A i \in DOMAIN views :
                LET due == views[i].needs_paint \/ (views[i].was_loading /\ views[i].loading = NoLoad)
                IN /\ ~due => views'[i] = views[i]
                   /\ (\/ views'[i].last_frame # views[i].last_frame
                       \/ views'[i].was_loading # views[i].was_loading) => due]_vars

\* After a pass over two views: the first, up to date, still holds the frame a
\* request_render stored; the second, whose load had ended, was captured.
C16_Witness ==
    /\ last_action.type = "Render"
    /\ Len(views) = 2
    /\ ~views[1].needs_paint
    /\ views[1].last_frame.pixels.order = "Bgra"
    /\ views[2].last_frame.pixels.order = "Rgba"
    /\ ~views[2].was_loading

C18_CreateViewAppends ==
    [][(last_action'.type = "CreateView" /\ panic = NoPanic)
       => /\ panic' = NoPanic
          /\ SelectSeq(calls', LAMBDA call : call.op = "new_view")
                = <<[op |-> "new_view", size |-> view_size, page |-> last_action'.page]>>
          /\ Len(views') = Len(views) + 1
          /\ Len(view_ids') = Len(view_ids) + 1
          /\ SubSeq(view_ids', 1, Len(view_ids)) = view_ids
          /\ view_ids'[Len(view_ids')] = views'[Len(views')].id
          /\ current_view_index' = current_view_index
          /\ view_size' = view_size
          /\ Len(Notified(tasks', "on_create_view")) = (IF callbacks.create THEN 1 ELSE 0)]_vars

\* C19: Action::ChangeView(i) with i in [0, N) calls resize(width + 10,
\* height - 10), resize(width, height) and request_render(view_ids[i], (width,
\* height)) in this order, then makes i the current index (and renders the
\* current view once more); view_ids and the stored viewport size are after
\* the action what they were before it.
C19_ChangeViewOrder ==
    [][(last_action'.type = "ChangeView" /\ panic = NoPanic /\ last_action'.index < Len(view_ids))
       => LET i == last_action'.index
              render(call) == /\ call.op = "request_render"
                              /\ call.id = view_ids[i + 1]
                              /\ call.size = view_size
          IN /\ view_ids' = view_ids
             /\ view_size' = view_size
             /\ Len(calls') = 4
             /\ calls'[1] = [op |-> "resize",
                             size |-> Size(view_size.width + ResizeQuirk,
                                           view_size.height - ResizeQuirk)]
             /\ calls'[2] = [op |-> "resize", size |-> view_size]
             /\ render(calls'[3])
             /\ render(calls'[4])
             /\ current_view_index' = i]_vars

\* C20: Action::Update completes and leaves view_ids, the current index, the
\* stored viewport size and the number of views as they were; it calls
\* engine.update() once and then, exactly when there is a current view,
\* request_render of the current view with the stored viewport size, and makes
\* no other engine call.
C20_UpdateTick ==
    [][(last_action'.type = "Update" /\ panic = NoPanic)
       => /\ panic' = NoPanic
          /\ view_ids' = view_ids
          /\ current_view_index' = current_view_index
          /\ view_size' = view_size
          /\ Len(views') = Len(views)
          /\ calls'[1] = [op |-> "update"]
          /\ IF current_view_index = None
             THEN Len(calls') = 1
             ELSE /\ Len(calls') = 2
                  /\ calls'[2].op = "request_render"
                  /\ calls'[2].id = view_ids[current_view_index + 1]
                  /\ calls'[2].size = view_size]_vars

\* A tick completed on a WebView that holds a view but has no current view.
C20_Witness ==
    /\ panic = NoPanic
    /\ last_action.type = "Update"
    /\ current_view_index = None
    /\ Len(views) = 1
    /\ calls = <<[op |-> "update"]>>

\* The Engine operation an Action of the navigation and input group forwards to.
ForwardedOp(type) ==
    CASE type = "GoBack" -> "go_back"
      [] type = "GoForward" -> "go_forward"
      [] type = "GoToUrl" -> "goto"
      [] type = "Refresh" -> "refresh"
      [] type = "SendKeyboardEvent" -> "handle_keyboard_event"
      [] type = "SendMouseEvent" -> "handle_mouse_event"
      [] OTHER -> "none"

\* C21: GoBack, GoForward, GoToUrl, Refresh, SendKeyboardEvent and
\* SendMouseEvent call their engine operation once, with the id
\* view_ids[current_view_index]; no call of the action carries another view
\* id; view_ids, current_view_index and the stored viewport size stay as they
\* were.  With no current view the action ends in the explicit "The current
\* view index is not set." failure and no engine call has been made.
C21_ForwardedToCurrentView ==
    [][ForwardedOp(last_action'.type) # "none"
       => /\ view_ids' = view_ids
          /\ current_view_index' = current_view_index
          /\ view_size' = view_size
          /\ IF current_view_index = None
             THEN panic' = PanicNoCurrent /\ calls' = <<>> /\ fired' = <<>>
             ELSE /\ panic' = NoPanic
                  /\ calls' # <<>>
                  /\ calls'[1].op = ForwardedOp(last_action'.type)
                  /\ Len(SelectSeq(calls', LAMBDA call :
                            call.op = ForwardedOp(last_action'.type))) = 1
                  /\ \A k \in DOMAIN calls' :
                        "id" \in DOMAIN calls'[k]
                        => calls'[k].id = view_ids[current_view_index + 1]]_vars

\* A navigation forwarded to the second of two views with different ids.
C21_Witness ==
    /\ last_action.type = "GoToUrl"
    /\ panic = NoPanic
    /\ Len(view_ids) = 2
    /\ view_ids[1] # view_ids[2]
    /\ current_view_index = 1
    /\ calls[1] = [op |-> "goto", id |-> view_ids[2], page |-> Url(last_action.url)]
    /\ views[2].loading = Url(last_action.url)
    /\ views[1].loading # Url(last_action.url)

\* The number of entries of view_ids holding id, and of live native views with it.
EntriesWith(ids, id) == Cardinality({i \in DOMAIN ids : ids[i] = id})
LiveWith(vs, id) == Cardinality({i \in DOMAIN vs : vs[i].id = id})

\* C22: after every completed action the ids in view_ids are exactly the ids
\* of the engine's live native views, one entry per live view; a completed
\* CloseView removes exactly one entry of view_ids and destroys exactly one
\* native view, the one that entry named.
C22_IndexAndBackendInStep ==
    [][panic' = NoPanic
       => /\ \A id \in ViewIds : EntriesWith(view_ids', id) = LiveWith(views', id)
          /\ last_action'.type = "CloseView"
             => /\ Len(view_ids') = Len(view_ids) - 1
                /\ Len(views') = Len(views) - 1
                /\ LET id == view_ids[last_action'.index + 1]
                   IN /\ EntriesWith(view_ids', id) = EntriesWith(view_ids, id) - 1
                      /\ LiveWith(views', id) = LiveWith(views, id) - 1]_vars

\* The view indices stored on the tabs are pairwise distinct and are exactly
\* the positions of ids.
DenseTabs(tabs, ids) ==
    /\ \A s, t \in DOMAIN tabs : s # t => tabs[s] # tabs[t]
    /\ {tabs[t] : t \in DOMAIN tabs} = 0..(Len(ids) - 1)

\* C23: in every host state that has neither exited nor panicked the view
\* indices stored on the nav-bar tabs are pairwise distinct and are exactly the
\* positions 0..len(view_ids)-1; NewTab stores on its tab the position the view
\* it creates occupies; CloseTab of the tab with index k removes that tab and
\* lowers by one the stored index of every tab whose index is greater than k.
C23_TabIndicesDense ==
    /\ []((panic = NoPanic /\ ~exited) => DenseTabs(nav, view_ids))
    /\ [][(panic' = NoPanic /\ ~exited')
          => /\ last_message'.msg = "NewTab"
                => /\ Len(nav') = Len(nav) + 1
                   /\ Len(view_ids') = Len(view_ids) + 1
                   /\ nav'[Len(nav')] = Len(view_ids') - 1
             /\ last_message'.msg = "CloseTab"
                => LET id == last_message'.id
                       k == nav[id]
                       rest == RemoveAt(nav, id - 1)
                   IN nav' = [t \in DOMAIN rest |->
                                 IF rest[t] > k THEN rest[t] - 1 ELSE rest[t]]]_vars

\* A key of one of the two tables, and its (virtual key code, native key code).
UsableKey(key) ==
    \/ key.kind = "Named" /\ key.v \in DOMAIN NamedKeyTable
    \/ key.kind = "Character" /\ key.v \in DOMAIN CharacterKeyTable
KeyCodes(key) == IF key.kind = "Named" THEN NamedKeyTable[key.v] ELSE CharacterKeyTable[key.v]

\* C24: handle_keyboard_event fires no key event when the key is absent (every
\* ModifiersChanged), Unidentified, a named key outside the table or a
\* character outside the table; for a press or a release of a key of the
\* table it fires exactly one key event, on the view addressed, carrying that
\* key's virtual key code and native key code.
C24_KeyIdentity ==
    [][last_action'.type = "handle_keyboard_event"
       => LET event == last_action'.event
          IN IF event.ev # "ModifiersChanged" /\ UsableKey(event.key)
             THEN /\ Len(fired') = 1
                  /\ fired'[1].ty = "Key"
                  /\ fired'[1].view = FindView(views, last_action'.id)
                  /\ fired'[1].event.virtual_key_code = KeyCodes(event.key)[1]
                  /\ fired'[1].event.native_key_code = KeyCodes(event.key)[2]
             ELSE fired' = <<>> /\ panic' = NoPanic]_vars

\* Enter pressed: one key event with (Return, 28).
C24_Witness ==
    /\ last_action.type = "handle_keyboard_event"
    /\ last_action.event.ev = "KeyPressed"
    /\ last_action.event.key = Named("Enter")
    /\ Len(fired) = 1
    /\ fired[1].event.virtual_key_code = "Return"
    /\ fired[1].event.native_key_code = 28

\* The text the claim derives for a keyboard event: " " for the Space key,
\* empty for every other named key, the supplied input text (empty if absent)
\* for a character key.
DerivedText(event) ==
    IF event.key.kind = "Named" THEN (IF event.key.v = "Space" THEN " " ELSE "")
    ELSE IF event.text = NoText THEN "" ELSE event.text

\* C25: the key event fired for a press or a release of a table key carries the
\* derived text and is classified so: with ctrl active, a raw key-down for a
\* press and a key-up for a release; otherwise a character-insertion event for
\* a press whose derived text is non-empty ASCII; otherwise a raw key-down for
\* a press and a key-up for a release.  A release is never a key-down.
C25_KeyClassification ==
    [][(/\ last_action'.type = "handle_keyboard_event"
        /\ last_action'.event.ev # "ModifiersChanged"
        /\ UsableKey(last_action'.event.key))
       => LET event == last_action'.event
              press == event.ev = "KeyPressed"
              text == DerivedText(event)
          IN /\ Len(fired') = 1
             /\ fired'[1].event.text = text
             /\ fired'[1].event.ty =
                   IF event.modifiers.ctrl THEN (IF press THEN "RawKeyDown" ELSE "KeyUp")
                   ELSE IF press /\ text # "" /\ IsAscii(text) THEN "Char"
                   ELSE IF press THEN "RawKeyDown" ELSE "KeyUp"
             /\ ~press => fired'[1].event.ty # "RawKeyDown"]_vars

\* The Engine calls of a handle_mouse_event made for view id, after the call itself.
CallsWithin == SubSeq(calls, 2, Len(calls))

\* C27: handle_mouse_event on a live view: a Forward (Back) release calls
\* go_forward (go_back) on that view and fires no native event; a Forward or
\* Back press and every event of a button that is not listed fire no native
\* event, navigate nowhere and leave the views as they are; a Left or Right
\* press (release) fires exactly one native MouseDown (MouseUp) with that
\* button, at the point given (converted to integers), on that view.
C27_MouseButtons ==
    [][(/\ last_action'.type = "handle_mouse_event"
        /\ last_action'.event.ev \in {"ButtonPressed", "ButtonReleased"})
       => LET event == last_action'.event
              id == last_action'.id
              point == last_action'.point
              released == event.ev = "ButtonReleased"
          IN /\ panic' = NoPanic
             /\ calls'[1] = [op |-> "handle_mouse_event", id |-> id]
             /\ IF released /\ event.button \in {"Forward", "Back"}
                THEN /\ CallsWithin' =
                           <<[op |-> IF event.button = "Forward" THEN "go_forward" ELSE "go_back",
                              id |-> id]>>
                     /\ fired' = <<>>
                ELSE IF event.button \in {"Left", "Right"}
                THEN /\ CallsWithin' = <<>>
                     /\ fired' = <<[view |-> FindView(views, id),
                                    ty |-> IF released THEN "MouseUp" ELSE "MouseDown",
                                    x |-> AsI32(point.x), y |-> AsI32(point.y),
                                    button |-> event.button]>>
                     /\ views' = views
                ELSE /\ CallsWithin' = <<>>
                     /\ fired' = <<>>
                     /\ views' = views]_vars

\* A Forward release on the second of two views: go_forward, no native event.
C27_Witness ==
    /\ last_action.type = "handle_mouse_event"
    /\ last_action.event = ButtonReleased("Forward")
    /\ Len(views) = 2
    /\ views[2].id = last_action.id
    /\ views[1].id # last_action.id
    /\ calls = <<[op |-> "handle_mouse_event", id |-> last_action.id],
                 [op |-> "go_forward", id |-> last_action.id]>>
    /\ fired = <<>>
    /\ views[2].loading = StartPage

\* C28: a wheel event fires exactly one native scroll event on the view; for a
\* delta in lines its pixel delta is, on each axis, the line delta times 100
\* converted to an integer (2 lines: 200, half a line: 50); for a delta in
\* pixels it is the delta converted to an integer.  (Deltas are in halves.)
C28_ScrollTranslation ==
    [][(/\ last_action'.type = "handle_mouse_event"
        /\ last_action'.event.ev = "WheelScrolled")
       => LET delta == last_action'.event.delta
              scale == IF delta.unit = "Lines" THEN LineScroll ELSE 1
          IN fired' = <<[view |-> FindView(views, last_action'.id),
                         ty |-> "ScrollByPixel",
                         x |-> AsI32(delta.x * scale),
                         y |-> AsI32(delta.y * scale)]>>]_vars

\* The positions in the event log at which a MouseMoved is fired on view i.
MovesOf(log, i) == {k \in DOMAIN log : log[k].ty = "MouseMoved" /\ log[k].view = i}

\* The log holds exactly one MouseMoved for view i, carrying the position pos
\* (converted to integers), and no lock_pixels of view i comes before it.
MovedBeforeCapture(log, i, pos) ==
    /\ Cardinality(MovesOf(log, i)) = 1
    /\ \A k \in MovesOf(log, i) :
          /\ log[k].x = AsI32(pos.x) /\ log[k].y = AsI32(pos.y)
          /\ \A j \in DOMAIN log : (log[j] = LockPixels(i)) => k < j

\* C29: a CursorMoved event fires no native event and only stores the point as
\* the pointer position of the view addressed; no other event or call changes
\* a stored position.  Engine::render fires, for every live view, exactly one
\* MouseMoved carrying that view's stored position before it locks the view's
\* pixels; request_render does so for its target view and for no other view.
C29_PointerMotionDeferred ==
    [][/\ \A i \in DOMAIN views :
             \/ /\ last_action'.type = "handle_mouse_event"
                /\ last_action'.event = CursorMoved
                /\ i = FindView(views, last_action'.id)
             \/ i \in DOMAIN views' /\ views'[i].cursor_pos = views[i].cursor_pos
       /\ (last_action'.type = "handle_mouse_event" /\ last_action'.event = CursorMoved)
          => /\ fired' = <<>>
             /\ views' = [views EXCEPT ![FindView(views, last_action'.id)].cursor_pos =
                                          last_action'.point]
       /\ last_action'.type = "Render"
          => \A i \in DOMAIN views : MovedBeforeCapture(fired', i, views[i].cursor_pos)
       /\ (last_action'.type = "Update" /\ current_view_index # None)
          => LET target == FindView(views, view_ids[current_view_index + 1])
             IN /\ MovedBeforeCapture(fired', target, views[target].cursor_pos)
                /\ LockPixels(target) \in {fired'[k] : k \in DOMAIN fired'}
                /\ \A i \in DOMAIN views : i # target => MovesOf(fired', i) = {}]_vars

\* A capture pass over two views after the pointer moved to (3.5, 2) over the
\* second one: the first view is told (0, 0), the second (3, 2).
C29_Witness ==
    /\ last_action.type = "Render"
    /\ Len(views) = 2
    /\ views[1].cursor_pos = Point(0, 0)
    /\ views[2].cursor_pos = Point(7, 4)
    /\ \E j, k \in DOMAIN fired :
          /\ fired[j] = [view |-> 1, ty |-> "MouseMoved", x |-> 0, y |-> 0, button |-> "None"]
          /\ fired[k] = [view |-> 2, ty |-> "MouseMoved", x |-> 3, y |-> 2, button |-> "None"]

\* The panics raised by a failed lookup: of the current index, of a position
\* of view_ids, of a ViewId among the engine's views.
LookupPanics == {PanicNoCurrent, PanicStaleCurrent, PanicNoIndex, PanicViewNotFound}

\* C31: with N >= 2 views, a current index c in [0, N) and i in [0, N),
\* CloseView(i) ends without a fatal lookup failure and leaves a current index
\* that is a position of the shortened view_ids (less than N - 1), also when
\* the closed view is the current one and the last of the sequence.  (Stated
\* for states with distinct ids and a viewport height of at least 10.)
C31_CloseViewKeepsCurrentValid ==
    [][(/\ last_action'.type = "CloseView"
        /\ PlainState
        /\ panic = NoPanic
        /\ Len(view_ids) >= 2
        /\ current_view_index # None
        /\ current_view_index < Len(view_ids)
        /\ last_action'.index < Len(view_ids))
       => /\ panic' \notin LookupPanics
          /\ current_view_index' # None
          /\ current_view_index' < Len(view_ids) - 1
          /\ Len(view_ids') = Len(view_ids) - 1]_vars

\* C32: CloseView(i) of an entry other than the current one (i # c) keeps the
\* same view current: afterwards view_ids[current_view_index] is the ViewId
\* that was current before, the index being one less exactly when i < c and
\* unchanged when i > c.
C32_CloseOtherKeepsCurrent ==
    [][(/\ last_action'.type = "CloseView"
        /\ panic = NoPanic
        /\ current_view_index # None
        /\ current_view_index < Len(view_ids)
        /\ last_action'.index < Len(view_ids)
        /\ last_action'.index # current_view_index)
       => LET i == last_action'.index
              c == current_view_index
          IN /\ current_view_index' = (IF i < c THEN c - 1 ELSE c)
             /\ current_view_index' < Len(view_ids')
             /\ view_ids'[current_view_index' + 1] = view_ids[c + 1]]_vars

\* C33: Message::GotoTab(t) passes Action::ChangeView(t) to the WebView only
\* when t is a position of view_ids (t < number of views); for every other t
\* nothing is dispatched and no state changes, so ChangeView never receives an
\* out-of-range index from GotoTab.
C33_GotoTabInRange ==
    [][(last_message'.msg = "GotoTab" /\ panic = NoPanic)
       => IF last_message'.tab < Len(view_ids)
          THEN last_action' \in {[type |-> "ChangeView", index |-> last_message'.tab],
                                 Action("none")}
          ELSE /\ last_action' = Action("none")
               /\ calls' = <<>>
               /\ panic' = NoPanic
               /\ UNCHANGED <<views, view_size, current_view_index, view_ids,
                              num_views, nav, webview_url>>]_vars

\* C34: the exit signal is produced only when the tab being closed is the last
\* remaining view: whatever the interleaving of NewTab, WebViewCreated,
\* CycleWebView and CloseTab, CloseTab returns exit only if view_ids holds
\* exactly one view at that moment.
C34_ExitOnlyOnLastView ==
    [][(exited' /\ ~exited)
       => /\ last_message'.msg = "CloseTab"
          /\ Len(view_ids) = 1]_vars

\* C35: the host's view counter tracks the orchestrator: in every state before
\* exit num_views <= len(view_ids), with equality whenever no WebViewCreated
\* message is pending; num_views never goes below 0.
C35_CounterTracksViews ==
    /\ num_views >= 0
    /\ ~exited =>
          /\ num_views <= Len(view_ids)
          /\ ~BagIn(Message("WebViewCreated"), pending) => num_views = Len(view_ids)

\* A tab was closed while the view of another NewTab was not yet counted: the
\* counter lags behind view_ids by the pending WebViewCreated.
C35_Witness ==
    /\ last_message.msg = "CloseTab"
    /\ last_action.type = "CloseView"
    /\ ~exited
    /\ panic = NoPanic
    /\ BagIn(Message("WebViewCreated"), pending)
    /\ num_views = 1
    /\ Len(view_ids) = 2

\* No WebViewCreated and no CycleWebView is waiting to be delivered.
FollowUpsDelivered ==
    /\ ~BagIn(Message("WebViewCreated"), pending)
    /\ ~BagIn(Message("CycleWebView"), pending)

\* C36: a new tab eventually becomes the displayed view: after NewTab, under
\* fair delivery, a state is reached in which its WebViewCreated and
\* CycleWebView follow-ups are delivered and the current index is the last
\* position of view_ids; this holds in every such state, however several
\* NewTab messages and their follow-ups interleave, and CycleWebView never
\* dispatches an out-of-range ChangeView.
C36_NewTabDisplayed ==
    /\ (last_message.msg = "NewTab")
          ~> (FollowUpsDelivered /\ current_view_index = Len(view_ids) - 1)
    /\ [](FollowUpsDelivered => current_view_index = Len(view_ids) - 1)
    /\ [][last_message'.msg = "CycleWebView"
          => /\ last_action'.type = "ChangeView"
             /\ last_action'.index \in 0..(Len(view_ids) - 1)
             /\ panic' = NoPanic]_vars

\* Two tabs were opened before any follow-up was delivered, and after the last
\* CycleWebView the third view is the one displayed.
C36_Witness ==
    /\ last_message.msg = "CycleWebView"
    /\ FollowUpsDelivered
    /\ Len(view_ids) = 3
    /\ num_views = 3
    /\ current_view_index = 2

\* The sizes engine.resize was called with by the last handler, in order.
ResizedTo == SelectSeq(calls, LAMBDA call : call.op = "resize")

\* C37: the 10-pixel resize perturbation never wraps u32 arithmetic: for every
\* viewport size stored through Action::Resize (heights below 10 included),
\* ChangeView, CloseView and new_view compute width + 10 and height - 10
\* without overflow or underflow, every size passed to the engine is the
\* stored size or exactly the perturbed one, and the stored viewport size is
\* the same after the action as before it.
C37_ResizeQuirkNeverWraps ==
    [][(/\ last_action'.type \in {"ChangeView", "CloseView", "CreateView", "init"}
        /\ panic = NoPanic)
       => LET perturbed == Size(view_size.width + ResizeQuirk, view_size.height - ResizeQuirk)
              quirk == \/ ResizedTo' # <<>>
                       \/ Len(views') > Len(views)
                       \/ panic' \in {PanicAddOverflow, PanicSubOverflow}
          IN /\ panic' \notin {PanicAddOverflow, PanicSubOverflow}
             /\ view_size' = view_size
             /\ \A k \in DOMAIN ResizedTo' : ResizedTo'[k].size \in {view_size, perturbed}
             /\ Len(views') > Len(views)
                   => /\ views'[Len(views')].nw = perturbed.width
                      /\ views'[Len(views')].nh = perturbed.height
             /\ quirk => /\ ~AddOverflows(view_size.width, ResizeQuirk)
                         /\ ~SubOverflows(view_size.height, ResizeQuirk)]_vars

\* The direction each arrow key names.
ArrowDirection ==
    "ArrowLeft" :> "Left" @@ "ArrowRight" :> "Right" @@ "ArrowUp" :> "Up" @@ "ArrowDown" :> "Down"

\* A press or a release of an arrow key was handled.
ArrowKeyHandled(a) ==
    /\ a.type = "handle_keyboard_event"
    /\ a.event.ev \in {"KeyPressed", "KeyReleased"}
    /\ a.event.key.kind = "Named"
    /\ a.event.key.v \in DOMAIN ArrowDirection

\* C38: each arrow key translates to the virtual key code naming its own
\* direction (ArrowLeft to Left, ArrowRight to Right, ArrowUp to Up, ArrowDown
\* to Down), for presses and for releases.
C38_ArrowKeys ==
    [][ArrowKeyHandled(last_action')
       => /\ Len(fired') = 1
          /\ fired'[1].ty = "Key"
          /\ fired'[1].event.virtual_key_code = ArrowDirection[last_action'.event.key.v]]_vars

\* The virtual key code of each letter key.
LetterCode ==
    "a" :> "A" @@ "b" :> "B" @@ "c" :> "C" @@ "d" :> "D" @@ "e" :> "E" @@ "f" :> "F" @@
    "g" :> "G" @@ "h" :> "H" @@ "i" :> "I" @@ "j" :> "J" @@ "k" :> "K" @@ "l" :> "L" @@
    "m" :> "M" @@ "n" :> "N" @@ "o" :> "O" @@ "p" :> "P" @@ "q" :> "Q" @@ "r" :> "R" @@
    "s" :> "S" @@ "t" :> "T" @@ "u" :> "U" @@ "v" :> "V" @@ "w" :> "W" @@ "x" :> "X" @@
    "y" :> "Y" @@ "z" :> "Z"

\* A press or a release of a letter key was handled and fired its key event.
LetterKeyHandled(a, log) ==
    /\ a.type = "handle_keyboard_event"
    /\ a.event.ev \in {"KeyPressed", "KeyReleased"}
    /\ a.event.key.kind = "Character"
    /\ a.event.key.v \in DOMAIN LetterCode
    /\ Len(log) = 1

\* C39: the letter rows of the key table are one-to-one: each character key
\* "a" to "z" translates to the virtual key code of its own letter, and two
\* different letter keys never translate to the same native scan code.
C39_LettersOneToOne ==
    [][(last_action'.type = "handle_keyboard_event"
        /\ last_action'.event.ev \in {"KeyPressed", "KeyReleased"}
        /\ last_action'.event.key.kind = "Character"
        /\ last_action'.event.key.v \in DOMAIN LetterCode)
       => /\ LetterKeyHandled(last_action', fired')
          /\ fired'[1].event.virtual_key_code = LetterCode[last_action'.event.key.v]
          /\ (/\ LetterKeyHandled(last_action, fired)
              /\ last_action.event.key.v # last_action'.event.key.v)
                => fired[1].event.native_key_code # fired'[1].event.native_key_code]_vars

====
